---- MODULE Spec2Model ----
(***************************************************************************)
(* A model of the report aggregation engine of reports-scrapper            *)
(* (src/utils.py and its helpers): the reports directory in its runtime    *)
(* layouts, the combined-workbook builder and the summary aggregators.     *)
(*                                                                         *)
(* Numbers: a float is held as an integer number of tenths (8.5 is 85).    *)
(* The float cells drawn below are multiples of one half, so every sum the *)
(* code forms is exact in binary floating point as well.                   *)
(*                                                                         *)
(* Text: a string cell is a tuple of one-character strings; a file name is *)
(* the tuple of its segments between underscores                           *)
(* ("ClassA_Student Usage_x.xlsx" is <<"ClassA", "Student Usage", "x">>).  *)
(***************************************************************************)
EXTENDS Integers, Sequences, FiniteSets, TLC

VARIABLES
    frozen,   \* sys.frozen: running as a packaged executable
    fs,       \* the two places a reports directory can be in
    clock,    \* wall-clock time (datetime.now()), in half-seconds
    calls,    \* the combine_all_reports invocations so far, with what each returned
    result,   \* the last call of an aggregator or helper and what it returned
    app,      \* the dashboard process: its AppState and its threads
    args      \* the arguments a helper function is given

vars == <<frozen, fs, clock, calls, result, app, args>>

(* ------------------------------ bounds -------------------------------- *)

\* Data rows in one source file of the combine model.
MaxRows == 1
\* Half-seconds the clock can advance.
MaxClock == 2
\* combine_all_reports invocations in one behaviour.
MaxCalls == 2
\* run_scraper threads started in one behaviour.
MaxJobs == 2

(* ------------------------------- cells -------------------------------- *)

\* A cell as pandas hands it over: a Python int, a float (in tenths), NaN
\* for an empty cell, a string, or a string that starts with "User: ".
PyInt(n) == [int |-> n]
PyFloat(t) == [flt |-> t]
NaN == [nan |-> TRUE]
PyStr(cs) == [str |-> cs]
UserStr(u) == [usr |-> u]

IsInt(c) == DOMAIN c = {"int"}
IsFlt(c) == DOMAIN c = {"flt"}
IsNaN(c) == DOMAIN c = {"nan"}
IsStr(c) == DOMAIN c = {"str"}
IsUsr(c) == DOMAIN c = {"usr"}

EmptyStr == PyStr(<<>>)

Digits == {"0", "1", "2", "3", "4", "5", "6", "7", "8", "9"}

DigitVal(d) ==
    CASE d = "0" -> 0 [] d = "1" -> 1 [] d = "2" -> 2 [] d = "3" -> 3
      [] d = "4" -> 4 [] d = "5" -> 5 [] d = "6" -> 6 [] d = "7" -> 7
      [] d = "8" -> 8 [] d = "9" -> 9

RECURSIVE DecimalVal(_)
DecimalVal(cs) ==
    IF cs = <<>> THEN 0
    ELSE 10 * DecimalVal(SubSeq(cs, 1, Len(cs) - 1)) + DigitVal(cs[Len(cs)])

AllDigits(cs) == cs # <<>> /\ \A i \in 1..Len(cs) : cs[i] \in Digits

\* pd.notna(cell)
NotNa(c) == ~IsNaN(c)

\* clean_row_data: None/NaN cells become ''.
CleanRowData(row) == [i \in 1..Len(row) |-> IF NotNa(row[i]) THEN row[i] ELSE EmptyStr]

\* A text that float() reads as not-a-number: "nan" in any case.  The
\* spellings pandas takes for a missing cell ("nan", "NaN") never reach
\* float() as text; "NAN" does.
NanText == <<"N", "A", "N">>

\* float("NAN"), held as a value apart from every number of the model: the
\* sum with it is it again (FloatAdd) and every comparison with it is
\* false (FloatLT, FloatGE).
FloatNaN == -1000000

IsNumber(x) == x # FloatNaN

FloatAdd(x, y) == IF IsNumber(x) /\ IsNumber(y) THEN x + y ELSE FloatNaN

FloatLT(x, y) == IsNumber(x) /\ IsNumber(y) /\ x < y

FloatGE(x, y) == IsNumber(x) /\ IsNumber(y) /\ x >= y

\* float(cell) raises ValueError for text that is not a number.  Over the
\* characters used here (digits, "%", letters) a string is a number exactly
\* when it is a non-empty run of digits or the text NAN.
FloatRaises(c) ==
    \/ IsUsr(c)
    \/ IsStr(c) /\ ~AllDigits(c.str) /\ c.str # NanText

\* float(cell), in tenths, where it does not raise.  No cell reaches
\* float() as a missing cell after clean_row_data.
FloatOf(c) ==
    CASE IsInt(c) -> 10 * c.int
      [] IsFlt(c) -> c.flt
      [] IsStr(c) -> IF c.str = NanText THEN FloatNaN ELSE 10 * DecimalVal(c.str)
      [] OTHER -> 0

\* int(x) of a float x in tenths: truncation toward zero.
IntOfFloat(t) == IF t >= 0 THEN t \div 10 ELSE -((-t) \div 10)

(* ---------------------------- file names ------------------------------ *)

REPORT_TYPES == <<"Student Usage", "Skill", "Assignment", "Assessment", "Level Up Progress">>

\* The report file names of the model, in the lexicographic order of their
\* paths (sorted(files)): a file is named by its index here.
\*   1 ClassA_Level Up Progress_x.xlsx   5 ClassB_Level Up Progress_x.xlsx
\*   2 ClassA_Skill_x.xlsx               6 ClassB_Skill_x.xlsx
\*   3 ClassA_Student Usage_x.xlsx       7 ClassB_Student Usage_x.xlsx
\*   4 ClassA_Student Usage_y.xlsx       8 Class_B_Student Usage_x.xlsx
Names ==
    << <<"ClassA", "Level Up Progress", "x">>,
       <<"ClassA", "Skill", "x">>,
       <<"ClassA", "Student Usage", "x">>,
       <<"ClassA", "Student Usage", "y">>,
       <<"ClassB", "Level Up Progress", "x">>,
       <<"ClassB", "Skill", "x">>,
       <<"ClassB", "Student Usage", "x">>,
       <<"Class", "B", "Student Usage", "x">> >>

\* "_<report_type>_" in filename, and the glob pattern *_<report_type>_*.xlsx:
\* some segment strictly inside the name is the report type.
HasTypeSegment(id, rtype) ==
    \E i \in 2..(Len(Names[id]) - 1) : Names[id][i] = rtype

\* filename.split("_<report_type>_")[0]: the segments before the first
\* inner occurrence of the report type.
OwnerOf(id, rtype) ==
    LET i == CHOOSE k \in 2..(Len(Names[id]) - 1) :
                 /\ Names[id][k] = rtype
                 /\ \A j \in 2..(k - 1) : Names[id][j] # rtype
    IN  SubSeq(Names[id], 1, i - 1)

\* filename.split("_")[0] if "_" in filename else filename
FirstSegment(id) == Names[id][1]

RECURSIVE SortedSeq(_)
\* sorted(files)
SortedSeq(S) ==
    IF S = {} THEN <<>>
    ELSE LET m == CHOOSE x \in S : \A y \in S : x <= y
         IN  <<m>> \o SortedSeq(S \ {m})

(* --------------------------- the file system --------------------------- *)

\* A source file: "gone" (listed, then removed before it is read), "zero"
\* (zero length), "corrupt" (read_excel raises) or "ok" with its data rows.
File(status, rows) == [status |-> status, rows |-> rows]

\* A directory that does not exist.
NoDir == [exists |-> FALSE, reports |-> <<>>, combined |-> <<>>]

Dir(reports) == [exists |-> TRUE, reports |-> reports, combined |-> <<>>]

\* path_helpers.get_base_path: sys._MEIPASS when frozen, else the working directory.
GetBasePath == IF frozen THEN "meipass" ELSE "cwd"

\* path_helpers.get_executable_dir
GetExecutableDir == IF frozen THEN "exe_dir" ELSE GetBasePath

Places == {"cwd", "exe_dir", "meipass"}

NoPlace == "none"

\* _resolve_reports_directory for a relative directory: the place whose
\* reports directory is used, or NoPlace (None).
ResolveReportsDirectory ==
    IF frozen
    THEN IF fs[GetExecutableDir].exists THEN GetExecutableDir
         ELSE IF fs[GetBasePath].exists THEN GetBasePath
         ELSE NoPlace
    ELSE IF fs[GetBasePath].exists THEN GetBasePath ELSE NoPlace

\* reports_directory.glob("*_<report_type>_*.xlsx").  A combined file,
\* Combined_All_Reports_<timestamp>.xlsx, has no report type between
\* underscores and matches no pattern.
Glob(place, rtype) ==
    {id \in DOMAIN fs[place].reports : HasTypeSegment(id, rtype)}

(* ----------------------- the combined workbook ------------------------ *)

STUDENT_USAGE_COL_STUDENT_NAME == 0
STUDENT_USAGE_COL_LISTEN == 5
STUDENT_USAGE_COL_READ == 6
STUDENT_USAGE_COL_QUIZ == 7

\* len(row) > col, and row[col] (Python indexes from 0)
HasCol(row, col) == Len(row) > col
Col(row, col) == row[col + 1]

\* A row of a sheet: the header (the columns of file `of`), a separator, a
\* data row, the spacer or a summary row.
SheetRow(kind, of, cells) == [kind |-> kind, of |-> of, cells |-> cells]

Label(l) == [label |-> l]

\* excel_helpers.create_separator_row
CreateSeparatorRow(username, num_columns) ==
    [i \in 1..num_columns |-> IF i = 1 THEN UserStr(username) ELSE EmptyStr]

\* excel_helpers.create_summary_row, where num_columns >= 2
CreateSummaryRow(label, value, num_columns) ==
    [i \in 1..num_columns |->
        IF i = 1 THEN Label(label) ELSE IF i = 2 THEN PyInt(value) ELSE EmptyStr]

\* excel_helpers.make_unique_sheet_name for a report type: the report types
\* are valid sheet names as they are; a name already taken gets a counter.
RECURSIVE FirstFreeCounter(_, _, _)
FirstFreeCounter(name, existing, counter) ==
    IF [name |-> name, n |-> counter] \notin existing THEN counter
    ELSE FirstFreeCounter(name, existing, counter + 1)

MakeUniqueSheetName(proposed_name, existing_names) ==
    IF [name |-> proposed_name, n |-> 0] \notin existing_names
    THEN [name |-> proposed_name, n |-> 0]
    ELSE [name |-> proposed_name, n |-> FirstFreeCounter(proposed_name, existing_names, 1)]

\* The per-file checks of the loops over sorted(files), in the code's order:
\* not exists() or st_size == 0, read_excel raising, df.empty.
FileSkipped(f) ==
    \/ f.status \in {"gone", "zero"}
    \/ f.status = "corrupt"
    \/ f.rows = <<>>

\* len(df.columns)
NumColumns(f) == Len(f.rows[1])

RECURSIVE AllDataAfterFirst(_, _, _)
\* The loop with the separator row left out for the first file read.
AllDataAfterFirst(reports, ids, first) ==
    IF ids = <<>> THEN <<>>
    ELSE LET f == reports[Head(ids)]
         IN  IF FileSkipped(f) THEN AllDataAfterFirst(reports, Tail(ids), first)
             ELSE (IF first THEN <<>>
                   ELSE <<SheetRow("separator", 0,
                             CreateSeparatorRow(FirstSegment(Head(ids)), NumColumns(f)))>>)
                  \o [i \in 1..Len(f.rows) |-> SheetRow("data", 0, CleanRowData(f.rows[i]))]
                  \o AllDataAfterFirst(reports, Tail(ids), FALSE)

CombinedAllDataFirstUnseparated(reports, ids) == AllDataAfterFirst(reports, ids, TRUE)

RECURSIVE CombinedAllDataSeparatorLast(_, _)
\* The loop with the separator row of a file put after its data rows.
CombinedAllDataSeparatorLast(reports, ids) ==
    IF ids = <<>> THEN <<>>
    ELSE LET f == reports[Head(ids)]
             rest == CombinedAllDataSeparatorLast(reports, Tail(ids))
         IN  IF FileSkipped(f) THEN rest
             ELSE [i \in 1..Len(f.rows) |-> SheetRow("data", 0, CleanRowData(f.rows[i]))]
                  \o <<SheetRow("separator", 0,
                                CreateSeparatorRow(FirstSegment(Head(ids)), NumColumns(f)))>>
                  \o rest

RECURSIVE CombinedAllData(_, _)
\* _create_combined_sheet, the loop: all_data, a separator row and then the
\* cleaned data rows of every file that is read, in sorted order.
CombinedAllData(reports, ids) ==
    IF ids = <<>> THEN <<>>
    ELSE LET f == reports[Head(ids)]
             rest == CombinedAllData(reports, Tail(ids))
         IN  IF FileSkipped(f) THEN rest
             ELSE <<SheetRow("separator", 0,
                             CreateSeparatorRow(FirstSegment(Head(ids)), NumColumns(f)))>>
                  \o [i \in 1..Len(f.rows) |-> SheetRow("data", 0, CleanRowData(f.rows[i]))]
                  \o rest

\* _create_combined_sheet: the header is written once, for the first file read.
HeaderRows(reports, ids) ==
    LET read == SelectSeq(ids, LAMBDA id : ~FileSkipped(reports[id]))
    IN  IF read = <<>> THEN <<>> ELSE <<SheetRow("header", Head(read), <<>>)>>

RECURSIVE SumColumn(_, _)
\* _add_student_usage_summary: the sum of float(row[col]) over the rows that
\* have the column and whose cell float() accepts.
SumColumn(rows, col) ==
    IF rows = <<>> THEN 0
    ELSE LET row == Head(rows)
         IN  (IF HasCol(row, col) /\ NotNa(Col(row, col)) /\ ~FloatRaises(Col(row, col))
              THEN FloatOf(Col(row, col)) ELSE 0)
             + SumColumn(Tail(rows), col)

RECURSIVE MaxWidth(_)
\* ws.max_column
MaxWidth(rows) ==
    IF rows = <<>> THEN 1
    ELSE LET w == Len(Head(rows).cells)
             m == MaxWidth(Tail(rows))
         IN  IF w > m THEN w ELSE m

\* _add_student_usage_summary: the spacer and the six summary rows.  A sheet
\* one column wide has no cell for the value: create_summary_row raises, the
\* handler logs it, and the spacer is all that was added.
StudentUsageSummary(all_data, files, header_width) ==
    LET data == SelectSeq(all_data, LAMBDA r : ~(r.cells # <<>> /\ IsUsr(r.cells[1])))
        cells == [i \in 1..Len(data) |-> data[i].cells]
        total_listens == SumColumn(cells, STUDENT_USAGE_COL_LISTEN)
        total_reads == SumColumn(cells, STUDENT_USAGE_COL_READ)
        total_quizzes == SumColumn(cells, STUDENT_USAGE_COL_QUIZ)
        w == MaxWidth(all_data)
        num_cols == IF w > header_width THEN w ELSE header_width
        spacer == SheetRow("spacer", 0, [i \in 1..num_cols |-> EmptyStr])
        summary(label, value) == SheetRow("summary", 0, CreateSummaryRow(label, value, num_cols))
    IN  IF num_cols < 2 THEN <<spacer>>
        ELSE << spacer,
                summary("Total Teachers", Cardinality(files)),
                summary("Total Students", Len(data)),
                summary("Total Listens", IntOfFloat(total_listens)),
                summary("Total Reads", IntOfFloat(total_reads)),
                summary("Total Quizzes", IntOfFloat(total_quizzes)),
                summary("Total", IntOfFloat(total_listens + total_reads + total_quizzes)) >>

\* _apply_report_specific_formatting: rows are added for Student Usage only
\* (the Skill data bars are formatting).
ReportSpecificRows(rtype, all_data, files, header_width) ==
    IF rtype = "Student Usage" THEN StudentUsageSummary(all_data, files, header_width)
    ELSE <<>>

\* _create_combined_sheet returning the sheet name whether or not any data
\* was collected.
CreateCombinedSheetAlwaysNamed(wb, reports, rtype, files) ==
    LET sheet_name == MakeUniqueSheetName(rtype, {wb[i].title : i \in 1..Len(wb)})
        ids == SortedSeq(files)
        all_data == CombinedAllData(reports, ids)
        header == HeaderRows(reports, ids)
        width == IF header = <<>> THEN 1 ELSE NumColumns(reports[header[1].of])
    IN  [wb |-> Append(wb, [title |-> sheet_name,
                            rows |-> header \o all_data
                                     \o ReportSpecificRows(rtype, all_data, files, width)]),
         named |-> TRUE]

\* _create_combined_sheet: the sheet is created first; the sheet name is
\* returned when all_data is not empty, None (named = FALSE) otherwise.
CreateCombinedSheet(wb, reports, rtype, files) ==
    LET sheet_name == MakeUniqueSheetName(rtype, {wb[i].title : i \in 1..Len(wb)})
        ids == SortedSeq(files)
        all_data == CombinedAllData(reports, ids)
        header == HeaderRows(reports, ids)
        width == IF header = <<>> THEN 1 ELSE NumColumns(reports[header[1].of])
    IN  IF all_data # <<>>
        THEN [wb |-> Append(wb, [title |-> sheet_name,
                                 rows |-> header \o all_data
                                          \o ReportSpecificRows(rtype, all_data, files, width)]),
              named |-> TRUE]
        ELSE [wb |-> Append(wb, [title |-> sheet_name, rows |-> <<>>]),
              named |-> FALSE]

RECURSIVE CombineSheets(_, _, _)
\* combine_all_reports, the loop over reports_by_type: the workbook and
\* successful_sheets after the report types REPORT_TYPES[i..] that have files.
CombineSheets(place, i, acc) ==
    IF i > Len(REPORT_TYPES) THEN acc
    ELSE LET files == Glob(place, REPORT_TYPES[i])
         IN  IF files = {} THEN CombineSheets(place, i + 1, acc)
             ELSE LET made == CreateCombinedSheet(acc.wb, fs[place].reports,
                                                  REPORT_TYPES[i], files)
                  IN  CombineSheets(place, i + 1,
                         [wb |-> made.wb,
                          successful_sheets |-> acc.successful_sheets
                                                + (IF made.named THEN 1 ELSE 0)])

\* date_helpers.get_current_timestamp with TIMESTAMP_FORMAT
\* ("%Y%m%d_%H%M%S"): the time cut to whole seconds.
GetCurrentTimestamp == clock \div 2

NoneRet == [none |-> TRUE, place |-> NoPlace, stamp |-> 0]
PathRet(place, stamp) == [none |-> FALSE, place |-> place, stamp |-> stamp]

\* An exception leaving the body of combine_all_reports.
Raised == [none |-> FALSE, place |-> "raised", stamp |-> 0]

\* An exception let through to the caller.
LetThrough(outcome) == outcome

\* except Exception: log the error, return None
ReturnNoneOnError(outcome) == IF outcome = Raised THEN NoneRet ELSE outcome

Call(ret, io) == [ret |-> ret, io |-> io]

\* combined_wb.save(...) into a directory that mkdir has made.
SaveInto(d, stamp, wb) ==
    [exists |-> TRUE,
     reports |-> d.reports,
     combined |-> [s \in DOMAIN d.combined \cup {stamp} |->
                      IF s = stamp THEN wb ELSE d.combined[s]]]

\* combine_all_reports(REPORTS_DIR).  io is what the file system does when
\* the workbook is saved: "ok", or mkdir or save raising, which the handler
\* catches to return None.
CombineStep ==
    /\ Len(calls) < MaxCalls
    /\ \E io \in {"ok", "mkdir_fails", "save_fails"} :
        LET place == ResolveReportsDirectory
            built == CombineSheets(place, 1, [wb |-> <<>>, successful_sheets |-> 0])
            target == GetExecutableDir
            stamp == GetCurrentTimestamp
        IN  IF place = NoPlace
            THEN /\ calls' = Append(calls, Call(NoneRet, "none"))
                 /\ fs' = fs
            ELSE IF \A i \in 1..Len(REPORT_TYPES) : Glob(place, REPORT_TYPES[i]) = {}
            THEN /\ calls' = Append(calls, Call(NoneRet, "none"))
                 /\ fs' = fs
            ELSE IF built.successful_sheets = 0
            THEN /\ calls' = Append(calls, Call(NoneRet, "none"))
                 /\ fs' = fs
            ELSE IF io = "mkdir_fails" /\ ~fs[target].exists
            THEN /\ calls' = Append(calls, Call(ReturnNoneOnError(Raised), io))
                 /\ fs' = fs
            ELSE IF io = "save_fails"
            THEN /\ calls' = Append(calls, Call(ReturnNoneOnError(Raised), io))
                 /\ fs' = [fs EXCEPT ![target].exists = TRUE]
            ELSE /\ calls' = Append(calls, Call(PathRet(target, stamp), "ok"))
                 /\ fs' = [fs EXCEPT ![target] = SaveInto(fs[target], stamp, built.wb)]

\* combine_all_reports called on its own.
CombineAllReports ==
    /\ CombineStep
    /\ UNCHANGED <<frozen, clock, result, app, args>>

\* Time passes between calls.
Tick ==
    /\ clock < MaxClock
    /\ clock' = clock + 1
    /\ UNCHANGED <<frozen, fs, calls, result, app, args>>

\* No helper function is called.
NoArgs == [none |-> TRUE]

\* The dashboard as it starts: AppState() with no download in progress, no
\* run_scraper thread, no request answered, no report being built.
AppStarted ==
    [download_in_progress |-> FALSE, jobs |-> <<>>, answer |-> "none", report |-> 0]

(* ---- the reports directories the combine model starts from ---- *)

UsageRow(name, listen, read, quiz) ==
    <<name, EmptyStr, EmptyStr, EmptyStr, EmptyStr, listen, read, quiz, PyInt(0), PyInt(0)>>

SkillRow(name, correct, total, accuracy) == <<name, correct, total, accuracy>>

\* The j-th data row of a file of the combine model.
PoolRow(id, j) ==
    IF HasTypeSegment(id, "Student Usage")
    THEN UsageRow(PyStr(<<"A">>), PyInt(j), PyInt(1), PyFloat(5))
    ELSE SkillRow(PyStr(<<"P">>), PyInt(j), PyInt(2), PyInt(0))

\* The contents a file of the combine model can have: choice 1..3 the files
\* that cannot be read, choice 4 + k a readable file of k data rows.
PoolFile(id, choice) ==
    CASE choice = 1 -> File("gone", <<>>)
      [] choice = 2 -> File("zero", <<>>)
      [] choice = 3 -> File("corrupt", <<>>)
      [] OTHER -> File("ok", [j \in 1..(choice - 4) |-> PoolRow(id, j)])

DirsOver(names) ==
    { Dir([id \in DOMAIN h |-> PoolFile(id, h[id])]) :
        h \in UNION { [S -> 1..(4 + MaxRows)] : S \in SUBSET names } }

\* The reports directory bundled into the executable: absent, empty, or
\* holding one readable Skill report.
BundledDirs ==
    {NoDir, Dir(<<>>), Dir([id \in {2} |-> File("ok", <<PoolRow(2, 1)>>)])}

NoResult == [op |-> "none"]

InitCombine ==
    /\ app = AppStarted
    /\ args = NoArgs
    /\ frozen \in BOOLEAN
    /\ clock = 0
    /\ calls = <<>>
    /\ result = NoResult
    /\ \E main \in {NoDir} \cup DirsOver({2, 3, 7}), bundled \in BundledDirs :
        fs = IF frozen
             THEN [p \in Places |-> IF p = "exe_dir" THEN main
                                    ELSE IF p = "meipass" THEN bundled ELSE NoDir]
             ELSE [p \in Places |-> IF p = "cwd" THEN main ELSE NoDir]

NextCombine == CombineAllReports \/ Tick

SpecCombine == InitCombine /\ [][NextCombine]_vars

(* ------------------------- claims C1 to C5 ---------------------------- *)

\* Some file of a report type in the directory can be read and has a data row.
Populated(place) ==
    /\ place # NoPlace
    /\ \E id \in DOMAIN fs[place].reports :
        /\ \E i \in 1..Len(REPORT_TYPES) : HasTypeSegment(id, REPORT_TYPES[i])
        /\ fs[place].reports[id].status = "ok"
        /\ fs[place].reports[id].rows # <<>>

\* The step is a combine_all_reports call.
IsCall == Len(calls') = Len(calls) + 1
LastCall == calls'[Len(calls')]

\* The workbook a call that returned a path has saved.
SavedBy(files, ret) == files[ret.place].combined[ret.stamp]

\* C1: combine_all_reports returns a path, and writes a combined file, only
\* if some report type has a file with at least one data row; when the
\* directory is missing, nothing matches or no matching file has data rows,
\* it returns None and the file system is left as it was.
C1_Theorem ==
    [][IsCall =>
        /\ ~LastCall.ret.none =>
              /\ Populated(ResolveReportsDirectory)
              /\ fs'[LastCall.ret.place].exists
              /\ LastCall.ret.stamp \in DOMAIN fs'[LastCall.ret.place].combined
        /\ ~Populated(ResolveReportsDirectory) => LastCall.ret.none /\ fs' = fs]_vars

\* C1 witness: one call returned None over a directory whose files are all
\* unreadable or empty, and a call returned the path of a file that is there.
C1_Witness ==
    /\ \E i \in 1..Len(calls) :
          /\ ~calls[i].ret.none
          /\ calls[i].ret.stamp \in DOMAIN fs[calls[i].ret.place].combined
    /\ \E i \in 1..Len(calls) : calls[i].ret.none /\ calls[i].io = "none"

\* C2: in every saved workbook each sheet holds at least one data row: a
\* report type whose files gave no data has no sheet.
C2_Claim ==
    \A p \in Places : \A s \in DOMAIN fs[p].combined :
        LET wb == fs[p].combined[s]
        IN  \A i \in 1..Len(wb) :
                \E r \in 1..Len(wb[i].rows) : wb[i].rows[r].kind = "data"

\* The directory holds N >= 1 files, all of one report type, all readable
\* and with data rows.
SingleType(place) ==
    /\ place # NoPlace
    /\ DOMAIN fs[place].reports # {}
    /\ \E i \in 1..Len(REPORT_TYPES) :
          \A id \in DOMAIN fs[place].reports :
              /\ HasTypeSegment(id, REPORT_TYPES[i])
              /\ \A j \in 1..Len(REPORT_TYPES) :
                    j # i => ~HasTypeSegment(id, REPORT_TYPES[j])
    /\ \A id \in DOMAIN fs[place].reports : ~FileSkipped(fs[place].reports[id])

Separators(sheet) == {r \in 1..Len(sheet.rows) : sheet.rows[r].kind = "separator"}

\* C3: combining N >= 1 readable, non-empty files of a single report type
\* saves (unless the disk fails) a workbook of exactly one sheet, with
\* exactly N separator rows.
C3_Theorem ==
    [][IsCall /\ SingleType(ResolveReportsDirectory) =>
        \/ LastCall.io \in {"mkdir_fails", "save_fails"}
        \/ /\ ~LastCall.ret.none
           /\ LET wb == SavedBy(fs', LastCall.ret)
              IN  /\ Len(wb) = 1
                  /\ Cardinality(Separators(wb[1]))
                        = Cardinality(DOMAIN fs[ResolveReportsDirectory].reports)]_vars

\* C3 witness: a workbook of one sheet with two separator rows was saved.
C3_Witness ==
    \E i \in 1..Len(calls) :
        /\ ~calls[i].ret.none
        /\ LET wb == SavedBy(fs, calls[i].ret)
           IN  Len(wb) = 1 /\ Cardinality(Separators(wb[1])) = 2

\* C4: every successful invocation leaves a combined file of its own: there
\* are as many combined files as invocations that returned a path.
C4_Claim ==
    LET written == {<<p, s>> \in Places \X (0..MaxClock) : s \in DOMAIN fs[p].combined}
    IN  Cardinality(written) = Cardinality({i \in 1..Len(calls) : ~calls[i].ret.none})

\* C5: when a run has produced a combined file, the next run over the
\* unchanged reports (the disk not failing) produces one too, with the same
\* sheets.
C5_Claim ==
    \A i \in 1..(Len(calls) - 1) :
        ~calls[i].ret.none /\ calls[i + 1].io \notin {"mkdir_fails", "save_fails"} =>
            /\ ~calls[i + 1].ret.none
            /\ SavedBy(fs, calls[i + 1].ret) = SavedBy(fs, calls[i].ret)

(* ------------------- the Student Usage aggregators -------------------- *)

STUDENT_USAGE_COL_INTERACTIVITY == 8
STUDENT_USAGE_COL_PRACTICE_RECORDING == 9

\* Data rows in one Student Usage file of the aggregator model.
MaxUsageRows == 2

\* The classroom names of the model, in string order (the order of
\* list.sort(key=name)): "ClassA" < "ClassB" < "Class_B" < "Unknown".
Owners == << <<"ClassA">>, <<"ClassB">>, <<"Class", "B">>, <<"Unknown">> >>

\* The classroom name an aggregator takes from a file name; a name without
\* the report type gets "Unknown".
ClassroomName(id, rtype) ==
    IF HasTypeSegment(id, rtype) THEN OwnerOf(id, rtype) ELSE <<"Unknown">>

\* The rows of a file without the first of them.
RowsReadAfterFirst(f) ==
    IF FileSkipped(f) THEN <<>>
    ELSE [i \in 1..(Len(f.rows) - 1) |-> CleanRowData(f.rows[i + 1])]

\* The rows an aggregator loop gets from one file: none when the file is
\* skipped (missing, zero length, read_excel raising into the per-file
\* handler, df.empty), else the cleaned data rows.
RowsRead(f) ==
    IF FileSkipped(f) THEN <<>>
    ELSE [i \in 1..Len(f.rows) |-> CleanRowData(f.rows[i])]

RECURSIVE RowsOfFiles(_, _, _)
\* The (classroom, row) pairs in the order the loops over sorted(files) and
\* df.iterrows() visit them.
RowsOfFiles(reports, ids, rtype) ==
    IF ids = <<>> THEN <<>>
    ELSE LET rows == RowsRead(reports[Head(ids)])
         IN  [i \in 1..Len(rows) |->
                 [classroom |-> ClassroomName(Head(ids), rtype), row |-> rows[i]]]
             \o RowsOfFiles(reports, Tail(ids), rtype)

\* The orders in which a directory listing can give the files S.
Listings(S) ==
    {l \in [1..Cardinality(S) -> S] : \A i, j \in 1..Cardinality(S) : l[i] = l[j] => i = j}

\* list(reports_directory.glob("*_<report_type>_*.xlsx")): the matching
\* files in whatever order the directory gives them; nothing is listed
\* when no reports directory was resolved (the callers return before it).
ListFiles(rtype) ==
    IF ResolveReportsDirectory = NoPlace THEN {<<>>}
    ELSE Listings(Glob(ResolveReportsDirectory, rtype))

\* The files taken in the order of the listing.
Unsorted(files) == files

RECURSIVE InsertSorted(_, _)
InsertSorted(sorted, id) ==
    IF sorted = <<>> THEN <<id>>
    ELSE IF Head(sorted) <= id THEN <<Head(sorted)>> \o InsertSorted(Tail(sorted), id)
    ELSE <<id>> \o sorted

RECURSIVE Sorted(_)
\* sorted(files) of a listing: by path, whatever the order of the listing.
Sorted(files) ==
    IF files = <<>> THEN <<>>
    ELSE InsertSorted(Sorted(Tail(files)), Head(files))

None == [none |-> TRUE, val |-> <<>>]
Some(v) == [none |-> FALSE, val |-> v]

\* The value a row adds to a total: float(row[col]) when the row has the
\* column and float() accepts the cell, else nothing.
CellValue(row, col) ==
    IF HasCol(row, col) /\ NotNa(Col(row, col)) /\ ~FloatRaises(Col(row, col))
    THEN FloatOf(Col(row, col)) ELSE 0

\* get_school_summary(REPORTS_DIR), `files` being the listing of the
\* Student Usage files
SchoolSummary(files) ==
    LET place == ResolveReportsDirectory
        pairs == RowsOfFiles(fs[place].reports, Sorted(files), "Student Usage")
        all_data == [i \in 1..Len(pairs) |-> pairs[i].row]
        total_listens == SumColumn(all_data, STUDENT_USAGE_COL_LISTEN)
        total_reads == SumColumn(all_data, STUDENT_USAGE_COL_READ)
        total_quizzes == SumColumn(all_data, STUDENT_USAGE_COL_QUIZ)
    IN  IF place = NoPlace THEN None
        ELSE IF files = <<>> THEN None
        ELSE IF all_data = <<>> THEN None
        ELSE Some([all_teachers |-> Len(files),
                   all_students |-> Len(all_data),
                   total_listen |-> IntOfFloat(total_listens),
                   total_read |-> IntOfFloat(total_reads),
                   total_quizzes |-> IntOfFloat(total_quizzes),
                   total_activities |->
                       IntOfFloat(total_listens + total_reads + total_quizzes)])

GetSchoolSummary ==
    /\ \E files \in ListFiles("Student Usage") :
          result' = [op |-> "get_school_summary", ret |-> SchoolSummary(files)]
    /\ UNCHANGED <<frozen, fs, clock, calls, app, args>>

\* round(n / d, 0) for d > 0: to the nearest integer, a tie to the even one.
RoundDiv(n, d) ==
    LET q == n \div d
        r == n % d
    IN  IF 2 * r < d THEN q
        ELSE IF 2 * r > d THEN q + 1
        ELSE IF q % 2 = 0 THEN q ELSE q + 1

\* round((students_used / total_students) * 100, 1), in tenths.  No tie
\* arises below 16 students, where the float quotient rounds as the exact one.
UsagePercent(students_used, total_students) ==
    IF total_students > 0 THEN RoundDiv(1000 * students_used, total_students) ELSE 0

NewClassroom(name) ==
    [name |-> name, students |-> 0, students_used |-> 0, listen |-> 0, read |-> 0,
     quiz |-> 0, interactivity |-> 0, practice_recording |-> 0, usage |-> 0]

\* The row counted once for every listen, read or quiz cell above zero.
AddUsageRowPerCell(c, row) ==
    [c EXCEPT !.students = @ + 1,
              !.students_used = @ + (IF CellValue(row, STUDENT_USAGE_COL_LISTEN) > 0 THEN 1 ELSE 0)
                                  + (IF CellValue(row, STUDENT_USAGE_COL_READ) > 0 THEN 1 ELSE 0)
                                  + (IF CellValue(row, STUDENT_USAGE_COL_QUIZ) > 0 THEN 1 ELSE 0),
              !.listen = @ + CellValue(row, STUDENT_USAGE_COL_LISTEN),
              !.read = @ + CellValue(row, STUDENT_USAGE_COL_READ),
              !.quiz = @ + CellValue(row, STUDENT_USAGE_COL_QUIZ),
              !.interactivity = @ + CellValue(row, STUDENT_USAGE_COL_INTERACTIVITY),
              !.practice_recording = @ + CellValue(row, STUDENT_USAGE_COL_PRACTICE_RECORDING)]

\* get_classroom_summaries, one row: the student is counted, is "used" when
\* a listen, read or quiz value is above zero, and the five columns are summed.
AddUsageRow(c, row) ==
    LET student_used ==
            \/ CellValue(row, STUDENT_USAGE_COL_LISTEN) > 0
            \/ CellValue(row, STUDENT_USAGE_COL_READ) > 0
            \/ CellValue(row, STUDENT_USAGE_COL_QUIZ) > 0
    IN  [c EXCEPT !.students = @ + 1,
                  !.students_used = @ + (IF student_used THEN 1 ELSE 0),
                  !.listen = @ + CellValue(row, STUDENT_USAGE_COL_LISTEN),
                  !.read = @ + CellValue(row, STUDENT_USAGE_COL_READ),
                  !.quiz = @ + CellValue(row, STUDENT_USAGE_COL_QUIZ),
                  !.interactivity = @ + CellValue(row, STUDENT_USAGE_COL_INTERACTIVITY),
                  !.practice_recording = @ + CellValue(row, STUDENT_USAGE_COL_PRACTICE_RECORDING)]

RECURSIVE ClassroomDataPerRow(_, _)
\* classroom_data holding for each classroom its last row alone.
ClassroomDataPerRow(pairs, acc) ==
    IF pairs = <<>> THEN acc
    ELSE LET name == Head(pairs).classroom
             new == AddUsageRow(NewClassroom(name), Head(pairs).row)
         IN  ClassroomDataPerRow(Tail(pairs),
                 [n \in DOMAIN acc \cup {name} |-> IF n = name THEN new ELSE acc[n]])

RECURSIVE ClassroomData(_, _)
\* get_classroom_summaries: classroom_data after the rows `pairs`, an entry
\* being made when the first row of a classroom is met.
ClassroomData(pairs, acc) ==
    IF pairs = <<>> THEN acc
    ELSE LET name == Head(pairs).classroom
             old == IF name \in DOMAIN acc THEN acc[name] ELSE NewClassroom(name)
             new == AddUsageRow(old, Head(pairs).row)
         IN  ClassroomData(Tail(pairs),
                 [n \in DOMAIN acc \cup {name} |-> IF n = name THEN new ELSE acc[n]])

\* list(d.values()) sorted by the classroom name
SortedByName(d) ==
    LET present == SelectSeq(Owners, LAMBDA n : n \in DOMAIN d)
    IN  [i \in 1..Len(present) |-> d[present[i]]]

\* get_classroom_summaries(REPORTS_DIR)
ClassroomSummaries(files) ==
    LET place == ResolveReportsDirectory
        pairs == RowsOfFiles(fs[place].reports, Sorted(files), "Student Usage")
        classroom_data == ClassroomData(pairs, <<>>)
        with_usage == [n \in DOMAIN classroom_data |->
                          [classroom_data[n] EXCEPT
                              !.usage = UsagePercent(classroom_data[n].students_used,
                                                     classroom_data[n].students)]]
    IN  IF place = NoPlace THEN None
        ELSE IF files = <<>> THEN None
        ELSE IF DOMAIN classroom_data = {} THEN None
        ELSE Some(SortedByName(with_usage))

GetClassroomSummaries ==
    /\ \E files \in ListFiles("Student Usage") :
          result' = [op |-> "get_classroom_summaries", ret |-> ClassroomSummaries(files)]
    /\ UNCHANGED <<frozen, fs, clock, calls, app, args>>

RECURSIVE Strip(_)
\* str.strip() over the characters of the model: blanks at either end go.
Strip(cs) ==
    IF cs = <<>> THEN cs
    ELSE IF Head(cs) = " " THEN Strip(Tail(cs))
    ELSE IF cs[Len(cs)] = " " THEN Strip(SubSeq(cs, 1, Len(cs) - 1))
    ELSE cs

DigitChars == <<"0", "1", "2", "3", "4", "5", "6", "7", "8", "9">>

RECURSIVE IntText(_)
\* str(n) of an integer n >= 0
IntText(n) ==
    IF n < 10 THEN <<DigitChars[n + 1]>>
    ELSE IntText(n \div 10) \o <<DigitChars[(n % 10) + 1]>>

\* str(cell) of a cleaned cell: the text itself, the digits of an integer,
\* and for a float x >= 0 (held in tenths) its shortest form "d.d"; the
\* text "User: <name>" keeps the name in one piece.
StrOf(c) ==
    CASE IsStr(c) -> c.str
      [] IsUsr(c) -> <<"U", "s", "e", "r", ":", " ", c.usr>>
      [] IsInt(c) -> IntText(c.int)
      [] IsFlt(c) -> IntText(c.flt \div 10) \o <<".">> \o IntText(c.flt % 10)

\* str(cell).strip(), as a text cell
NameOf(c) == PyStr(Strip(StrOf(c)))

RECURSIVE InsertByScore(_, _)
\* Where a stable descending sort puts s among the already sorted `sorted`
\* rows that came before it: after every row whose score is not smaller.
InsertByScore(sorted, s) ==
    IF sorted = <<>> THEN <<s>>
    ELSE IF Head(sorted).score >= s.score
         THEN <<Head(sorted)>> \o InsertByScore(Tail(sorted), s)
         ELSE <<s>> \o sorted

RECURSIVE SortByScore(_)
\* list.sort(key=score, reverse=True): stable, equal scores keep their order.
SortByScore(students) ==
    IF students = <<>> THEN <<>>
    ELSE InsertByScore(SortByScore(SubSeq(students, 1, Len(students) - 1)),
                       students[Len(students)])

\* The first three of the rows sorted, before the zero scores are dropped.
TopStudentsUnfiltered(students) ==
    LET sorted == SortByScore(students)
    IN  SubSeq(sorted, 1, IF Len(sorted) < 3 THEN Len(sorted) ELSE 3)

\* get_top_readers_per_classroom, one classroom: the students with a score
\* above zero, sorted by score descending, the first three of them.
TopStudents(students) ==
    LET valid_students == SelectSeq(students, LAMBDA s : s.score > 0)
        sorted == SortByScore(valid_students)
    IN  SubSeq(sorted, 1, IF Len(sorted) < 3 THEN Len(sorted) ELSE 3)

\* get_top_readers_per_classroom, one row: nothing for a row without a
\* student name, else the name with listen + read.
StudentOfRow(row) ==
    LET name == IF HasCol(row, STUDENT_USAGE_COL_STUDENT_NAME)
                THEN NameOf(Col(row, STUDENT_USAGE_COL_STUDENT_NAME)) ELSE EmptyStr
    IN  IF name = EmptyStr THEN <<>>
        ELSE << [name |-> name,
                 score |-> CellValue(row, STUDENT_USAGE_COL_LISTEN)
                           + CellValue(row, STUDENT_USAGE_COL_READ)] >>

RECURSIVE ClassroomStudents(_, _)
\* get_top_readers_per_classroom: classroom_students after the rows `pairs`.
ClassroomStudents(pairs, acc) ==
    IF pairs = <<>> THEN acc
    ELSE LET name == Head(pairs).classroom
             student == StudentOfRow(Head(pairs).row)
             old == IF name \in DOMAIN acc THEN acc[name] ELSE <<>>
         IN  IF student = <<>> THEN ClassroomStudents(Tail(pairs), acc)
             ELSE ClassroomStudents(Tail(pairs),
                      [n \in DOMAIN acc \cup {name} |->
                          IF n = name THEN old \o student ELSE acc[n]])

\* get_top_readers_per_classroom(REPORTS_DIR)
TopReadersPerClassroom(files) ==
    LET place == ResolveReportsDirectory
        pairs == RowsOfFiles(fs[place].reports, Sorted(files), "Student Usage")
        classroom_students == ClassroomStudents(pairs, <<>>)
        listed == {n \in DOMAIN classroom_students : TopStudents(classroom_students[n]) # <<>>}
        top_readers_data == [n \in listed |->
                                [name |-> n, students |-> TopStudents(classroom_students[n])]]
    IN  IF place = NoPlace THEN None
        ELSE IF files = <<>> THEN None
        ELSE IF DOMAIN classroom_students = {} THEN None
        ELSE Some(SortedByName(top_readers_data))

GetTopReadersPerClassroom ==
    /\ \E files \in ListFiles("Student Usage") :
          result' = [op |-> "get_top_readers_per_classroom",
                     ret |-> TopReadersPerClassroom(files)]
    /\ UNCHANGED <<frozen, fs, clock, calls, app, args>>

(* ---- the reports directories the Student Usage model starts from ---- *)

\* The Student Usage rows of the model: a student without activity, one
\* with half units, one with cells that are text or empty, a row without
\* a student name, and one with a negative value.
UsageRows ==
    { UsageRow(PyStr(<<"A">>), PyInt(0), PyInt(0), PyInt(0)),
      UsageRow(PyStr(<<"B">>), PyFloat(5), PyFloat(5), PyInt(0)),
      UsageRow(PyStr(<<"C", " ">>), PyInt(2), PyStr(<<"x">>), NaN),
      UsageRow(NaN, PyInt(3), PyInt(1), PyInt(1)),
      UsageRow(PyStr(<<"D">>), PyInt(-1), PyInt(1), PyInt(0)) }

RECURSIVE SeqsUpTo(_, _)
\* The sequences over S of length at most n.
SeqsUpTo(S, n) ==
    IF n = 0 THEN {<<>>}
    ELSE LET shorter == SeqsUpTo(S, n - 1)
         IN  shorter \cup {Append(q, x) : q \in shorter, x \in S}

UsageFiles == {File("ok", rows) : rows \in SeqsUpTo(UsageRows, MaxUsageRows)}

\* A second file of the same classroom: one that cannot be read, or one of
\* one or two students with activity.
SecondUsageFiles ==
    { File("gone", <<>>), File("zero", <<>>), File("corrupt", <<>>),
      File("ok", <<UsageRow(PyStr(<<"B">>), PyFloat(5), PyFloat(5), PyInt(0))>>),
      File("ok", <<UsageRow(PyStr(<<"B">>), PyFloat(5), PyFloat(5), PyInt(0)),
                   UsageRow(PyStr(<<"C", " ">>), PyInt(2), PyStr(<<"x">>), NaN)>>) }

\* Up to two files of classroom ClassA, and for ClassB no file, an empty
\* one or one with a single student, with or without activity.
UsageDirs ==
    { Dir(a @@ a2 @@ b) :
        a \in UNION { [S -> UsageFiles] : S \in SUBSET {3} },
        a2 \in UNION { [S -> SecondUsageFiles] : S \in SUBSET {4} },
        b \in { <<>>,
                [id \in {7} |-> File("zero", <<>>)],
                [id \in {7} |-> File("ok", <<UsageRow(PyStr(<<"A">>), PyInt(0), PyInt(0), PyInt(0))>>)],
                [id \in {7} |-> File("ok", <<UsageRow(PyStr(<<"B">>), PyInt(4), PyInt(1), PyFloat(15))>>)] } }

InitUsage ==
    /\ app = AppStarted
    /\ args = NoArgs
    /\ frozen = FALSE
    /\ clock = 0
    /\ calls = <<>>
    /\ result = NoResult
    /\ \E d \in {NoDir} \cup UsageDirs :
        fs = [p \in Places |-> IF p = "cwd" THEN d ELSE NoDir]

NextUsage == GetSchoolSummary \/ GetClassroomSummaries \/ GetTopReadersPerClassroom

SpecUsage == InitUsage /\ [][NextUsage]_vars

(* ------------------------ the Skill aggregator ------------------------ *)

SKILL_COL_SKILL_NAME == 0
SKILL_COL_CORRECT == 1
SKILL_COL_TOTAL == 2
SKILL_COL_ACCURACY == 3

\* Data rows in one Skill file of the aggregator model.
MaxSkillRows == 2

\* str(cell).isdigit(): a non-negative integer cell or a run of digits; the
\* text of a float ("8.0") or of a negative number is not one.
IsDigit(c) ==
    \/ IsInt(c) /\ c.int >= 0
    \/ IsStr(c) /\ AllDigits(c.str)

\* int(cell) where str(cell).isdigit()
IntOf(c) == IF IsInt(c) THEN c.int ELSE DecimalVal(c.str)

\* int(cell) if pd.notna(cell) and str(cell).isdigit() else 0
CountOf(c) == IF NotNa(c) /\ IsDigit(c) THEN IntOf(c) ELSE 0

\* The row on which float(cleaned_row[SKILL_COL_ACCURACY]) raises.
SkillRowRaises(row) ==
    /\ Len(row) >= 4
    /\ NotNa(Col(row, SKILL_COL_ACCURACY))
    /\ FloatRaises(Col(row, SKILL_COL_ACCURACY))

\* get_reading_skills_data, one row: skill_data, the accuracy in tenths.
SkillData(row) ==
    LET correct == CountOf(Col(row, SKILL_COL_CORRECT))
        total == CountOf(Col(row, SKILL_COL_TOTAL))
        accuracy == IF NotNa(Col(row, SKILL_COL_ACCURACY))
                    THEN FloatOf(Col(row, SKILL_COL_ACCURACY)) ELSE 0
    IN  [name |-> NameOf(Col(row, SKILL_COL_SKILL_NAME)),
         correct |-> correct,
         total |-> total,
         accuracy |-> IF total > 0 /\ accuracy = 0
                      THEN RoundDiv(1000 * correct, total) ELSE accuracy]

RECURSIVE FileSkills(_)
\* The skills the row loop appends for one file: the loop ends at the first
\* row that raises (the handler around the file catches it), rows of fewer
\* than four cells add nothing.
FileSkills(rows) ==
    IF rows = <<>> THEN <<>>
    ELSE IF SkillRowRaises(Head(rows)) THEN <<>>
    ELSE (IF Len(Head(rows)) >= 4 THEN <<SkillData(Head(rows))>> ELSE <<>>)
         \o FileSkills(Tail(rows))

RECURSIVE SkillClassroomData(_, _, _)
\* get_reading_skills_data: classroom_data after the files `ids`; a file
\* that is read and not empty makes the entry of its classroom.
SkillClassroomData(reports, ids, acc) ==
    IF ids = <<>> THEN acc
    ELSE IF FileSkipped(reports[Head(ids)]) \/ ~HasTypeSegment(Head(ids), "Skill")
    THEN SkillClassroomData(reports, Tail(ids), acc)
    ELSE LET name == OwnerOf(Head(ids), "Skill")
             old == IF name \in DOMAIN acc THEN acc[name]
                    ELSE [classroom |-> name, skills |-> <<>>]
             new == [old EXCEPT !.skills = @ \o FileSkills(RowsRead(reports[Head(ids)]))]
         IN  SkillClassroomData(reports, Tail(ids),
                 [n \in DOMAIN acc \cup {name} |-> IF n = name THEN new ELSE acc[n]])

\* get_reading_skills_data(REPORTS_DIR)
ReadingSkillsData(files) ==
    LET place == ResolveReportsDirectory
        classroom_data == SkillClassroomData(fs[place].reports, Sorted(files), <<>>)
    IN  IF place = NoPlace THEN None
        ELSE IF files = <<>> THEN None
        ELSE IF DOMAIN classroom_data = {} THEN None
        ELSE Some(SortedByName(classroom_data))

GetReadingSkillsData ==
    /\ \E files \in ListFiles("Skill") :
          result' = [op |-> "get_reading_skills_data", ret |-> ReadingSkillsData(files)]
    /\ UNCHANGED <<frozen, fs, clock, calls, app, args>>

\* The Skill rows of the model: an accuracy of zero to derive, an accuracy
\* cell left empty, no questions with and without an accuracy, and a row
\* whose correct cell is a float and whose other cells are text and a float.
SkillRows ==
    { SkillRow(PyStr(<<"P">>), PyInt(8), PyInt(10), PyInt(0)),
      SkillRow(PyStr(<<"Q">>), PyInt(1), PyInt(3), NaN),
      SkillRow(PyStr(<<"R">>), PyInt(0), PyInt(0), PyInt(50)),
      SkillRow(PyStr(<<"S">>), PyInt(0), PyInt(0), PyInt(0)),
      SkillRow(PyStr(<<"T">>), PyFloat(80), PyStr(<<"3">>), PyFloat(505)) }

SkillFiles ==
    {File("gone", <<>>), File("zero", <<>>), File("corrupt", <<>>)}
        \cup {File("ok", rows) : rows \in SeqsUpTo(SkillRows, MaxSkillRows)}

\* A Skill file of ClassA and one of ClassB, either of them there or not.
SkillDirs == { Dir(f) : f \in UNION { [S -> SkillFiles] : S \in SUBSET {2, 6} } }

InitSkill ==
    /\ app = AppStarted
    /\ args = NoArgs
    /\ frozen = FALSE
    /\ clock = 0
    /\ calls = <<>>
    /\ result = NoResult
    /\ \E d \in {NoDir} \cup SkillDirs :
        fs = [p \in Places |-> IF p = "cwd" THEN d ELSE NoDir]

NextSkill == GetReadingSkillsData

SpecSkill == InitSkill /\ [][NextSkill]_vars

(* ------------------ the Level Up Progress aggregator ------------------ *)

LEVEL_UP_COL_STUDENT == 5
LEVEL_UP_COL_LEVEL == 6
LEVEL_UP_COL_PROGRESS == 7

\* Characters in a progress cell that holds text.
MaxProgressLen == 3

\* Data rows in one Level Up Progress file of the aggregator model.
MaxLevelUpRows == 2

RECURSIVE Replace(_, _)
\* str.replace(ch, ""): every occurrence of ch goes.
Replace(cs, ch) ==
    IF cs = <<>> THEN <<>>
    ELSE (IF Head(cs) = ch THEN <<>> ELSE <<Head(cs)>>) \o Replace(Tail(cs), ch)

RECURSIVE RStripChar(_, _)
\* The text without the occurrences of ch at its end.
RStripChar(cs, ch) ==
    IF cs # <<>> /\ cs[Len(cs)] = ch THEN RStripChar(SubSeq(cs, 1, Len(cs) - 1), ch)
    ELSE cs

\* Where the first "." of a text is, 0 when it has none.
PointAt(cs) ==
    IF \E i \in 1..Len(cs) : cs[i] = "."
    THEN CHOOSE i \in 1..Len(cs) : cs[i] = "." /\ \A j \in 1..(i - 1) : cs[j] # "."
    ELSE 0

\* float(text) accepts the text: blanks around it aside, it is a run of
\* digits, or digits, a point and one digit (the form str() gives a float
\* of the model).  Signs, exponents, "inf", "nan" and "_" are not among the
\* characters of the model.
IsFloatText(cs) ==
    LET t == Strip(cs)
        k == PointAt(t)
    IN  IF k = 0 THEN AllDigits(t)
        ELSE /\ AllDigits(SubSeq(t, 1, k - 1))
             /\ Len(t) = k + 1
             /\ t[k + 1] \in Digits

\* float(text), in tenths, where IsFloatText(text).
FloatOfText(cs) ==
    LET t == Strip(cs)
        k == PointAt(t)
    IN  IF k = 0 THEN 10 * DecimalVal(t)
        ELSE 10 * DecimalVal(SubSeq(t, 1, k - 1)) + DigitVal(t[k + 1])

\* The progress read with only the "%" at the end of the text removed.
ProgressValueTrailing(c) ==
    LET progress_str == RStripChar(Strip(StrOf(c)), "%")
    IN  IF IsFloatText(progress_str) THEN FloatOfText(progress_str) ELSE 0

\* get_level_up_progress_data, the progress of one row: str(cell).strip(),
\* every "%" replaced by nothing, float() of the rest, 0.0 when it raises.
ProgressValue(c) ==
    LET progress_str == Replace(Strip(StrOf(c)), "%")
    IN  IF IsFloatText(progress_str) THEN FloatOfText(progress_str) ELSE 0

StudentData(row) ==
    [student |-> NameOf(Col(row, LEVEL_UP_COL_STUDENT)),
     level |-> NameOf(Col(row, LEVEL_UP_COL_LEVEL)),
     progress |-> ProgressValue(Col(row, LEVEL_UP_COL_PROGRESS))]

\* The rows of one file that give a student: those of eight cells or more.
FileStudents(rows) ==
    LET wide == SelectSeq(rows, LAMBDA r : Len(r) >= 8)
    IN  [i \in 1..Len(wide) |-> StudentData(wide[i])]

RECURSIVE LevelUpClassroomData(_, _, _)
\* get_level_up_progress_data: classroom_data after the files `ids`.
LevelUpClassroomData(reports, ids, acc) ==
    IF ids = <<>> THEN acc
    ELSE IF FileSkipped(reports[Head(ids)])
            \/ ~HasTypeSegment(Head(ids), "Level Up Progress")
    THEN LevelUpClassroomData(reports, Tail(ids), acc)
    ELSE LET name == OwnerOf(Head(ids), "Level Up Progress")
             old == IF name \in DOMAIN acc THEN acc[name]
                    ELSE [classroom |-> name, students |-> <<>>]
             new == [old EXCEPT !.students = @ \o FileStudents(RowsRead(reports[Head(ids)]))]
         IN  LevelUpClassroomData(reports, Tail(ids),
                 [n \in DOMAIN acc \cup {name} |-> IF n = name THEN new ELSE acc[n]])

\* The student names of the model in string order: "" < "A" < "B".
StudentOrder == <<EmptyStr, PyStr(<<"A">>), PyStr(<<"B">>)>>

\* list.sort(key=student): stable, the students of one name keep their order.
SortedByStudent(students) ==
    LET named(k) == SelectSeq(students, LAMBDA x : x.student = StudentOrder[k])
    IN  named(1) \o named(2) \o named(3)

\* get_level_up_progress_data(REPORTS_DIR)
LevelUpProgressData(files) ==
    LET place == ResolveReportsDirectory
        classroom_data == LevelUpClassroomData(fs[place].reports, Sorted(files), <<>>)
        sorted == [n \in DOMAIN classroom_data |->
                      [classroom_data[n] EXCEPT !.students = SortedByStudent(@)]]
    IN  IF place = NoPlace THEN None
        ELSE IF files = <<>> THEN None
        ELSE IF DOMAIN classroom_data = {} THEN None
        ELSE Some(SortedByName(sorted))

GetLevelUpProgressData ==
    /\ \E files \in ListFiles("Level Up Progress") :
          result' = [op |-> "get_level_up_progress_data", ret |-> LevelUpProgressData(files)]
    /\ UNCHANGED <<frozen, fs, clock, calls, app, args>>

LevelUpRow(student, level, progress) ==
    <<EmptyStr, EmptyStr, EmptyStr, EmptyStr, EmptyStr, student, level, progress>>

\* The progress cells of the model: text over a few characters, an integer,
\* a float, and the empty cell.
ProgressCells ==
    { PyStr(cs) : cs \in SeqsUpTo({"4", "5", "%", "N", " "}, MaxProgressLen) }
        \cup {PyInt(45), PyFloat(455), NaN}

\* A file of k rows: student B with progress cell p, then students A.
LevelUpFile(p, k) ==
    File("ok", <<LevelUpRow(PyStr(<<"B">>), PyStr(<<"K">>), p)>>
               \o [j \in 1..(k - 1) |-> LevelUpRow(PyStr(<<"A", " ">>), PyInt(j), PyInt(45))])

LevelUpFiles ==
    {File("gone", <<>>), File("zero", <<>>), File("corrupt", <<>>),
     File("ok", <<SkillRow(PyStr(<<"A">>), PyInt(1), PyInt(2), PyStr(<<"4", "%">>))>>)}
        \cup {LevelUpFile(p, k) : p \in ProgressCells, k \in 1..MaxLevelUpRows}

\* A Level Up Progress file of ClassA, and for ClassB none, an empty one
\* or one of a single row.
LevelUpDirs ==
    { Dir(a @@ b) :
        a \in UNION { [S -> LevelUpFiles] : S \in SUBSET {1} },
        b \in { <<>>,
                [id \in {5} |-> File("zero", <<>>)],
                [id \in {5} |-> LevelUpFile(PyStr(<<"5", "%">>), 1)] } }

InitLevelUp ==
    /\ app = AppStarted
    /\ args = NoArgs
    /\ frozen = FALSE
    /\ clock = 0
    /\ calls = <<>>
    /\ result = NoResult
    /\ \E d \in {NoDir} \cup LevelUpDirs :
        fs = [p \in Places |-> IF p = "cwd" THEN d ELSE NoDir]

NextLevelUp == GetLevelUpProgressData

SpecLevelUp == InitLevelUp /\ [][NextLevelUp]_vars

(* ------------------------- the composed views -------------------------- *)

RECURSIVE Flatten(_)
\* The skills of the classrooms one after the other.
Flatten(classrooms) ==
    IF classrooms = <<>> THEN <<>>
    ELSE Head(classrooms).skills \o Flatten(Tail(classrooms))

RECURSIVE FirstSeen(_, _)
\* The skill names in the order they first occur: the keys of
\* skill_accumulator in its insertion order.
FirstSeen(skills, seen) ==
    IF skills = <<>> THEN <<>>
    ELSE IF Head(skills).name \in seen THEN FirstSeen(Tail(skills), seen)
    ELSE <<Head(skills).name>> \o FirstSeen(Tail(skills), seen \cup {Head(skills).name})

RECURSIVE SumOf(_, _)
\* The sum of field `field` over the entries.
SumOf(entries, field) ==
    IF entries = <<>> THEN 0 ELSE Head(entries)[field] + SumOf(Tail(entries), field)

RECURSIVE FloatSumOf(_, _)
\* The float sum of field `field` over the entries.
FloatSumOf(entries, field) ==
    IF entries = <<>> THEN 0
    ELSE FloatAdd(Head(entries)[field], FloatSumOf(Tail(entries), field))

\* round(total / count, 1), in tenths; not-a-number stays what it is.
FloatRoundDiv(total, count) == IF IsNumber(total) THEN RoundDiv(total, count) ELSE FloatNaN

RECURSIVE InsertByAccuracy(_, _)
\* Where the stable descending sort puts s: before the first entry that
\* compares smaller than it.
InsertByAccuracy(sorted, s) ==
    IF sorted = <<>> THEN <<s>>
    ELSE IF ~FloatLT(Head(sorted).accuracy, s.accuracy)
         THEN <<Head(sorted)>> \o InsertByAccuracy(Tail(sorted), s)
         ELSE <<s>> \o sorted

RECURSIVE SortByAccuracy(_)
\* list.sort(key=accuracy, reverse=True), stable
SortByAccuracy(entries) ==
    IF entries = <<>> THEN <<>>
    ELSE InsertByAccuracy(SortByAccuracy(SubSeq(entries, 1, Len(entries) - 1)),
                          entries[Len(entries)])

\* get_skills_summary(REPORTS_DIR); accuracies in tenths.
SkillsSummary(files) ==
    LET reading_skills_data == ReadingSkillsData(files)
        skills == Flatten(reading_skills_data.val)
        total_correct == SumOf(skills, "correct")
        total_questions == SumOf(skills, "total")
        names == FirstSeen(skills, {})
        named(n) == SelectSeq(skills, LAMBDA sk : sk.name = n)
        average(n) == [name |-> n,
                       accuracy |-> FloatRoundDiv(FloatSumOf(named(n), "accuracy"),
                                                  Len(named(n))),
                       correct |-> SumOf(named(n), "correct"),
                       total |-> SumOf(named(n), "total")]
        skill_averages == SortByAccuracy([k \in 1..Len(names) |-> average(names[k])])
    IN  IF reading_skills_data.none THEN None
        ELSE IF reading_skills_data.val = <<>> THEN None
        ELSE Some([total_classrooms |-> Len(reading_skills_data.val),
                   total_correct |-> total_correct,
                   total_questions |-> total_questions,
                   overall_accuracy |-> IF total_questions > 0
                                        THEN RoundDiv(1000 * total_correct, total_questions)
                                        ELSE 0,
                   skill_averages |-> skill_averages,
                   top_skills |-> SubSeq(skill_averages, 1,
                                         IF Len(skill_averages) < 5
                                         THEN Len(skill_averages) ELSE 5),
                   accuracy_distribution |->
                       [high |-> Len(SelectSeq(skill_averages,
                                        LAMBDA a : FloatGE(a.accuracy, 800))),
                        medium |-> Len(SelectSeq(skill_averages,
                                          LAMBDA a : FloatGE(a.accuracy, 600)
                                                     /\ FloatLT(a.accuracy, 800))),
                        low |-> Len(SelectSeq(skill_averages,
                                       LAMBDA a : FloatLT(a.accuracy, 600)))]])

GetSkillsSummary ==
    /\ \E files \in ListFiles("Skill") :
          result' = [op |-> "get_skills_summary", ret |-> SkillsSummary(files)]
    /\ UNCHANGED <<frozen, fs, clock, calls, app, args>>

\* get_classroom_comparison_data(REPORTS_DIR)
ClassroomComparisonData(files) ==
    LET summaries == ClassroomSummaries(files)
    IN  IF summaries.none THEN None
        ELSE IF summaries.val = <<>> THEN None
        ELSE Some([labels |-> [i \in 1..Len(summaries.val) |-> summaries.val[i].name],
                   listen |-> [i \in 1..Len(summaries.val) |-> summaries.val[i].listen],
                   read |-> [i \in 1..Len(summaries.val) |-> summaries.val[i].read],
                   quiz |-> [i \in 1..Len(summaries.val) |-> summaries.val[i].quiz]])

GetClassroomComparisonData ==
    /\ \E files \in ListFiles("Student Usage") :
          result' = [op |-> "get_classroom_comparison_data",
                     ret |-> ClassroomComparisonData(files)]
    /\ UNCHANGED <<frozen, fs, clock, calls, app, args>>

\* The rows of a report file of the model of all the views.
ViewRows(id) ==
    CASE id = 1 -> <<LevelUpRow(PyStr(<<"B">>), PyStr(<<"K">>), PyStr(<<"4", "%">>))>>
      [] id = 2 -> <<SkillRow(PyStr(<<"P">>), PyInt(8), PyInt(10), PyInt(0)),
                     SkillRow(PyStr(<<"Q">>), PyInt(1), PyInt(3), NaN)>>
      [] id = 3 -> <<UsageRow(PyStr(<<"B">>), PyFloat(5), PyFloat(5), PyInt(0)),
                     UsageRow(PyStr(<<"C", " ">>), PyInt(2), PyStr(<<"x">>), NaN)>>
      [] id = 4 -> <<UsageRow(PyStr(<<"A">>), PyInt(1), PyInt(0), PyInt(0))>>
      [] id = 6 -> <<SkillRow(PyStr(<<"P">>), PyInt(0), PyInt(0), PyInt(50))>>
      [] id = 8 -> <<UsageRow(PyStr(<<"E">>), PyInt(3), PyInt(0), PyInt(1)),
                     UsageRow(PyStr(<<"F">>), PyInt(0), PyInt(2), PyInt(0)),
                     UsageRow(UserStr("G"), PyInt(1), PyInt(1), PyInt(1))>>

\* A directory holding the files S: all of them readable, or the first of
\* zero length, or the last corrupt, or all of them gone when they are read.
ViewDir(S, kind) ==
    Dir([id \in S |->
            IF kind = "gone" THEN File("gone", <<>>)
            ELSE IF kind = "first_zero" /\ \A other \in S : id <= other THEN File("zero", <<>>)
            ELSE IF kind = "last_corrupt" /\ \A other \in S : other <= id THEN File("corrupt", <<>>)
            ELSE File("ok", ViewRows(id))])

ViewDirs ==
    { ViewDir(S, kind) : S \in SUBSET {1, 2, 3, 4, 6, 8},
                         kind \in {"ok", "first_zero", "last_corrupt", "gone"} }

InitViews ==
    /\ app = AppStarted
    /\ args = NoArgs
    /\ frozen = FALSE
    /\ clock = 0
    /\ calls = <<>>
    /\ result = NoResult
    /\ \E d \in {NoDir} \cup ViewDirs :
        fs = [p \in Places |-> IF p = "cwd" THEN d ELSE NoDir]

NextViews ==
    \/ GetSchoolSummary
    \/ GetClassroomSummaries
    \/ GetReadingSkillsData
    \/ GetSkillsSummary
    \/ GetTopReadersPerClassroom
    \/ GetLevelUpProgressData
    \/ GetClassroomComparisonData
    \/ CombineAllReports

SpecViews == InitViews /\ [][NextViews]_vars

(* ------------- claims about the Student Usage aggregators ------------- *)

\* The rows of the Student Usage files of the resolved reports directory
\* that can be read, each with the classroom of its file.
UsagePairs ==
    LET place == ResolveReportsDirectory
    IN  IF place = NoPlace THEN <<>>
        ELSE RowsOfFiles(fs[place].reports, SortedSeq(Glob(place, "Student Usage")),
                         "Student Usage")

Returned(op) == result.op = op /\ ~result.ret.none

\* C6: get_school_summary returns None when no Student Usage data rows
\* exist, and a returned summary has total_activities equal to
\* total_listen + total_read + total_quizzes exactly.
C6_Claim ==
    result.op = "get_school_summary" =>
        /\ UsagePairs = <<>> => result.ret.none
        /\ ~result.ret.none =>
              result.ret.val.total_activities =
                  result.ret.val.total_listen + result.ret.val.total_read
                      + result.ret.val.total_quizzes

\* The distance of x from y.
Dist(x, y) == IF x >= y THEN x - y ELSE y - x

\* C7: every classroom entry of get_classroom_summaries has
\* 0 <= students_used <= students, a usage between 0 and 100, the usage
\* being students_used / students * 100 rounded to one decimal (the tenth
\* nearest to the quotient), and 0 when students is 0.
C7_Theorem ==
    Returned("get_classroom_summaries") =>
        \A i \in 1..Len(result.ret.val) :
            LET e == result.ret.val[i]
            IN  /\ 0 <= e.students_used
                /\ e.students_used <= e.students
                /\ 0 <= e.usage
                /\ e.usage <= 1000
                /\ e.students > 0 =>
                      2 * Dist(e.usage * e.students, 1000 * e.students_used) <= e.students
                /\ e.students = 0 => e.usage = 0

\* A classroom of three students of whom one used the tool: usage 33.3.
C7_Witness ==
    /\ Returned("get_classroom_summaries")
    /\ \E i \in 1..Len(result.ret.val) :
          /\ result.ret.val[i].students = 3
          /\ result.ret.val[i].students_used = 1
          /\ result.ret.val[i].usage = 333

\* The named students of classroom n with their scores, as the readable
\* files hold them.
NamedIn(pair, n) == pair.classroom = n /\ StudentOfRow(pair.row) # <<>>

ScoredStudents(n) ==
    LET sel == SelectSeq(UsagePairs, LAMBDA q : NamedIn(q, n))
    IN  [i \in 1..Len(sel) |-> StudentOfRow(sel[i].row)[1]]

NumAbove(students, score) ==
    Cardinality({k \in 1..Len(students) : students[k].score > score})

\* C8: every classroom entry of get_top_readers_per_classroom lists one to
\* three students, each with a score above zero, in non-increasing order
\* of score, and they are the highest scoring students of the classroom; a
\* classroom whose students all have score zero has no entry.
C8_Theorem ==
    Returned("get_top_readers_per_classroom") =>
        /\ \A i \in 1..Len(result.ret.val) :
              LET e == result.ret.val[i]
                  all == ScoredStudents(e.name)
                  positive == NumAbove(all, 0)
              IN  /\ Len(e.students) \in 1..3
                  /\ Len(e.students) = IF positive < 3 THEN positive ELSE 3
                  /\ \A j \in 1..Len(e.students) :
                        /\ e.students[j].score > 0
                        /\ \E k \in 1..Len(all) : all[k] = e.students[j]
                        /\ NumAbove(all, e.students[j].score) <= j - 1
                  /\ \A j \in 1..(Len(e.students) - 1) :
                        e.students[j].score >= e.students[j + 1].score
        /\ \A o \in 1..Len(Owners) :
              NumAbove(ScoredStudents(Owners[o]), 0) = 0 =>
                  \A i \in 1..Len(result.ret.val) : result.ret.val[i].name # Owners[o]

\* A classroom with four students of positive score, three of them listed,
\* the first with a higher score than the last, and beside it a classroom
\* whose only student has score zero.
C8_Witness ==
    /\ Returned("get_top_readers_per_classroom")
    /\ \E o \in 1..Len(Owners) :
          /\ ScoredStudents(Owners[o]) # <<>>
          /\ NumAbove(ScoredStudents(Owners[o]), 0) = 0
    /\ \E i \in 1..Len(result.ret.val) :
          LET e == result.ret.val[i]
          IN  /\ NumAbove(ScoredStudents(e.name), 0) >= 4
              /\ Len(e.students) = 3
              /\ e.students[1].score > e.students[3].score

(* ------------------ claims about the Skill aggregator ----------------- *)

\* The rows of the Skill files of classroom n that can be read, in the
\* order of the files.
SkillRowsOf(n) ==
    LET place == ResolveReportsDirectory
        pairs == IF place = NoPlace THEN <<>>
                 ELSE RowsOfFiles(fs[place].reports, SortedSeq(Glob(place, "Skill")), "Skill")
        sel == SelectSeq(pairs, LAMBDA q : q.classroom = n)
    IN  [i \in 1..Len(sel) |-> sel[i].row]

\* The accuracy cell of a row holds a number that is not zero.
SourceAccuracyGiven(row) ==
    /\ NotNa(Col(row, SKILL_COL_ACCURACY))
    /\ ~FloatRaises(Col(row, SKILL_COL_ACCURACY))
    /\ FloatOf(Col(row, SKILL_COL_ACCURACY)) # 0

\* The skills of classroom n in the result, none when it has no entry.
SkillsOf(n) ==
    LET sel == SelectSeq(result.ret.val, LAMBDA e : e.classroom = n)
    IN  IF sel = <<>> THEN <<>> ELSE sel[1].skills

\* C9: every Skill row gives a skill entry whose accuracy is the source
\* accuracy when that is present and not zero, else
\* round(correct / total * 100, 1), and 0 whenever total is 0.
C9_Claim ==
    result.op = "get_reading_skills_data" =>
        \A o \in 1..Len(Owners) :
            LET rows == SkillRowsOf(Owners[o])
                skills == IF result.ret.none THEN <<>> ELSE SkillsOf(Owners[o])
            IN  /\ Len(skills) = Len(rows)
                /\ \A i \in 1..Len(rows) :
                      LET correct == CountOf(Col(rows[i], SKILL_COL_CORRECT))
                          total == CountOf(Col(rows[i], SKILL_COL_TOTAL))
                      IN  /\ SourceAccuracyGiven(rows[i]) =>
                                skills[i].accuracy = FloatOf(Col(rows[i], SKILL_COL_ACCURACY))
                          /\ ~SourceAccuracyGiven(rows[i]) /\ total > 0 =>
                                skills[i].accuracy = RoundDiv(1000 * correct, total)
                          /\ total = 0 => skills[i].accuracy = 0

(* ------------ claims about the Level Up Progress aggregator ----------- *)

\* The rows of eight cells or more of the Level Up Progress files of
\* classroom n that can be read.
LevelUpRowsOf(n) ==
    LET place == ResolveReportsDirectory
        pairs == IF place = NoPlace THEN <<>>
                 ELSE RowsOfFiles(fs[place].reports,
                                  SortedSeq(Glob(place, "Level Up Progress")),
                                  "Level Up Progress")
        sel == SelectSeq(pairs, LAMBDA q : q.classroom = n /\ Len(q.row) >= 8)
    IN  [i \in 1..Len(sel) |-> sel[i].row]

\* The students of classroom n in the result, none when it has no entry.
StudentsOf(n) ==
    LET sel == IF result.ret.none THEN <<>>
               ELSE SelectSeq(result.ret.val, LAMBDA e : e.classroom = n)
    IN  IF sel = <<>> THEN <<>> ELSE sel[1].students

Count(seq, x) == Cardinality({i \in 1..Len(seq) : seq[i] = x})

\* Two lists hold the same entries the same number of times.
SameEntries(got, want) ==
    /\ Len(got) = Len(want)
    /\ \A i \in 1..Len(want) : Count(got, want[i]) = Count(want, want[i])

\* The number a text stands for, 0.0 when it is not a number.
NumberOr0(text) == IF IsFloatText(text) THEN FloatOfText(text) ELSE 0

ProgressText(row) == Strip(StrOf(Col(row, LEVEL_UP_COL_PROGRESS)))

\* The entry of a row whose progress is `progress`.
EntryOf(row, progress) ==
    [student |-> NameOf(Col(row, LEVEL_UP_COL_STUDENT)),
     level |-> NameOf(Col(row, LEVEL_UP_COL_LEVEL)),
     progress |-> progress]

FilesRead(place, rtype) ==
    {id \in Glob(place, rtype) : ~FileSkipped(fs[place].reports[id])}

\* The rows of the sheet of a report type in a workbook, none without one.
SheetRows(wb, rtype) ==
    LET sel == SelectSeq(wb, LAMBDA sh : sh.title = [name |-> rtype, n |-> 0])
    IN  IF sel = <<>> THEN <<>> ELSE sel[1].rows

\* The rows of the sheet built for a report type from the files `files`.
RowsBuiltFrom(place, rtype, files) ==
    IF files = {} THEN <<>>
    ELSE CreateCombinedSheet(<<>>, fs[place].reports, rtype, files).wb[1].rows

C13_Claim ==
    \A i \in 1..Len(calls) :
        calls[i].io \in {"mkdir_fails", "save_fails"} => ~calls[i].ret.none

\* The data rows among the rows of a sheet.
DataRows(rows) == SelectSeq(rows, LAMBDA r : r.kind = "data")

\* The data rows of the files of a report type in the external and the
\* internal reports directory together, a file name in both taken once.
UnionDataRows(rtype) ==
    LET reports == fs["exe_dir"].reports @@ fs["meipass"].reports
        files == {id \in DOMAIN reports : HasTypeSegment(id, rtype)}
    IN  DataRows(CombinedAllData(reports, SortedSeq(files)))

\* C14: when the external and the internal reports directory both exist,
\* the files processed for a report type are those of both directories: a
\* call puts the data rows of all of them into the sheet of the type.
C14_Claim ==
    [][IsCall /\ frozen /\ fs["exe_dir"].exists /\ fs["meipass"].exists
             /\ LastCall.io \in {"ok", "none"} =>
        \A i \in 1..Len(REPORT_TYPES) :
            DataRows(SheetRows(IF LastCall.ret.none THEN <<>>
                               ELSE SavedBy(fs', LastCall.ret), REPORT_TYPES[i]))
                = UnionDataRows(REPORT_TYPES[i])]_vars

(* --------------- further claims about the aggregators ------------------ *)

RECURSIVE RowsHeld(_, _)
\* The number of data rows held by the files `ids` that can be read.
RowsHeld(reports, ids) ==
    IF ids = <<>> THEN 0
    ELSE (IF reports[Head(ids)].status = "ok" THEN Len(reports[Head(ids)].rows) ELSE 0)
         + RowsHeld(reports, Tail(ids))

\* C16: in a summary of get_school_summary, all_teachers is the number of
\* Student Usage files found in the directory and all_students the number
\* of data rows read from them.
C16_Theorem ==
    Returned("get_school_summary") =>
        LET place == ResolveReportsDirectory
            files == Glob(place, "Student Usage")
        IN  /\ result.ret.val.all_teachers = Cardinality(files)
            /\ result.ret.val.all_students = RowsHeld(fs[place].reports, SortedSeq(files))

\* Two files of one row each, and a third that cannot be read: three
\* teachers, two students.
C16_Witness ==
    /\ Returned("get_school_summary")
    /\ result.ret.val.all_teachers = 3
    /\ result.ret.val.all_students = 2
    /\ \A id \in {3, 7} : Len(fs[ResolveReportsDirectory].reports[id].rows) = 1

\* listen + read + quiz of a row, a cell that is no number counting 0.
Activity(row) ==
    CellValue(row, STUDENT_USAGE_COL_LISTEN) + CellValue(row, STUDENT_USAGE_COL_READ)
        + CellValue(row, STUDENT_USAGE_COL_QUIZ)

\* C19: in get_classroom_summaries a row adds to students_used of its
\* classroom if and only if listen + read + quiz of the row is above zero.
C19_Claim ==
    Returned("get_classroom_summaries") =>
        \A i \in 1..Len(result.ret.val) :
            result.ret.val[i].students_used =
                Cardinality({k \in 1..Len(UsagePairs) :
                                /\ UsagePairs[k].classroom = result.ret.val[i].name
                                /\ Activity(UsagePairs[k].row) > 0})

\* The accuracy cell of a row is empty or holds no number.
AccuracyMissing(row) ==
    \/ ~NotNa(Col(row, SKILL_COL_ACCURACY))
    \/ FloatRaises(Col(row, SKILL_COL_ACCURACY))

\* C20: in get_reading_skills_data a row whose accuracy cell is missing or
\* no number is in the skills of its classroom, with the accuracy derived
\* from correct / total when total > 0 and 0 otherwise, and the rows after
\* it in the file are processed.
C20_Claim ==
    result.op = "get_reading_skills_data" =>
        \A o \in 1..Len(Owners) :
            LET rows == SkillRowsOf(Owners[o])
                skills == IF result.ret.none THEN <<>> ELSE SkillsOf(Owners[o])
            IN  (\E i \in 1..Len(rows) : AccuracyMissing(rows[i])) =>
                    /\ Len(skills) = Len(rows)
                    /\ \A i \in 1..Len(rows) :
                          AccuracyMissing(rows[i]) =>
                              LET correct == CountOf(Col(rows[i], SKILL_COL_CORRECT))
                                  total == CountOf(Col(rows[i], SKILL_COL_TOTAL))
                              IN  skills[i].accuracy =
                                      IF total > 0 THEN RoundDiv(1000 * correct, total) ELSE 0

(* --------------------------- the dashboard ---------------------------- *)

\* POST /scrape: a run_scraper thread is started when get_download_status()
\* is False, and "already_running" is answered otherwise.
Scrape ==
    /\ IF ~app.download_in_progress
       THEN /\ Len(app.jobs) < MaxJobs
            /\ app' = [app EXCEPT !.jobs = Append(@, "started"), !.answer = "started"]
       ELSE app' = [app EXCEPT !.answer = "already_running"]
    /\ UNCHANGED <<frozen, fs, clock, calls, result, args>>

\* run_scraper, its first statement: app_state.set_download_status(True)
SetDownloadStatusOf(j) ==
    /\ j \in 1..Len(app.jobs)
    /\ app.jobs[j] = "started"
    /\ app' = [app EXCEPT !.download_in_progress = TRUE, !.jobs[j] = "scraping"]
    /\ UNCHANGED <<frozen, fs, clock, calls, result, args>>

SetDownloadStatus == \E j \in 1..Len(app.jobs) : SetDownloadStatusOf(j)

\* The Student Usage report of a classroom as the scraper saves it.
DownloadedId == 3

\* run_scraper_for_users, download_report: the report is saved into the
\* reports directory, which get_reports_directory makes when it is not there.
DownloadReportOf(j) ==
    /\ j \in 1..Len(app.jobs)
    /\ app.jobs[j] = "scraping"
    /\ fs' = [fs EXCEPT ![GetExecutableDir] =
                [@ EXCEPT !.exists = TRUE,
                          !.reports = (DownloadedId :> File("ok", ViewRows(DownloadedId))) @@ @]]
    /\ app' = [app EXCEPT !.jobs[j] = "downloaded"]
    /\ UNCHANGED <<frozen, clock, calls, result, args>>

DownloadReport == \E j \in 1..Len(app.jobs) : DownloadReportOf(j)

\* run_scraper_for_users after a successful scrape: combine_all_reports(REPORTS_DIR)
CombineDownloadedOf(j) ==
    /\ j \in 1..Len(app.jobs)
    /\ app.jobs[j] = "downloaded"
    /\ CombineStep
    /\ app' = [app EXCEPT !.jobs[j] = "combined"]
    /\ UNCHANGED <<frozen, clock, result, args>>

CombineDownloaded == \E j \in 1..Len(app.jobs) : CombineDownloadedOf(j)

\* run_scraper returning after the reports were combined, the flag left as
\* it is when the scrape has failed.
ScraperReturnedOf(j) ==
    /\ j \in 1..Len(app.jobs)
    /\ app.jobs[j] \in {"scraping", "combined"}
    /\ app' = [app EXCEPT !.download_in_progress =
                              IF app.jobs[j] = "combined" THEN FALSE ELSE @,
                          !.jobs[j] = "finished"]
    /\ UNCHANGED <<frozen, fs, clock, calls, result, args>>

\* run_scraper, its finally clause: app_state.set_download_status(False),
\* after the reports were combined or after a scrape that failed (no users,
\* the scraper not importable, an exception in the scraper).
ScraperFinishedOf(j) ==
    /\ j \in 1..Len(app.jobs)
    /\ app.jobs[j] \in {"scraping", "combined"}
    /\ app' = [app EXCEPT !.download_in_progress = FALSE, !.jobs[j] = "finished"]
    /\ UNCHANGED <<frozen, fs, clock, calls, result, args>>

ScraperFinished == \E j \in 1..Len(app.jobs) : ScraperFinishedOf(j)

\* The aggregators in the order get_report_data calls them.
ReportViews ==
    <<"get_school_summary", "get_classroom_summaries", "get_reading_skills_data",
      "get_skills_summary", "get_level_up_progress_data",
      "get_top_readers_per_classroom", "get_classroom_comparison_data">>

\* What an aggregator returns for a listing of its files.
ViewOf(op, files) ==
    CASE op = "get_school_summary" -> SchoolSummary(files)
      [] op = "get_classroom_summaries" -> ClassroomSummaries(files)
      [] op = "get_reading_skills_data" -> ReadingSkillsData(files)
      [] op = "get_skills_summary" -> SkillsSummary(files)
      [] op = "get_level_up_progress_data" -> LevelUpProgressData(files)
      [] op = "get_top_readers_per_classroom" -> TopReadersPerClassroom(files)
      [] op = "get_classroom_comparison_data" -> ClassroomComparisonData(files)

\* The report type whose files an aggregator reads.
TypeRead(op) ==
    CASE op \in {"get_school_summary", "get_classroom_summaries",
                 "get_top_readers_per_classroom", "get_classroom_comparison_data"}
            -> "Student Usage"
      [] op \in {"get_reading_skills_data", "get_skills_summary"} -> "Skill"
      [] op = "get_level_up_progress_data" -> "Level Up Progress"

\* GET /report: the request has come in and get_report_data has loaded the
\* configuration; app.report is the aggregator it calls next.
Report ==
    /\ app.report = 0
    /\ app' = [app EXCEPT !.report = 1]
    /\ UNCHANGED <<frozen, fs, clock, calls, result, args>>

\* get_report_data calls its next aggregator; after the last one the page
\* is rendered.
GetReportData ==
    /\ app.report > 0
    /\ \E files \in ListFiles(TypeRead(ReportViews[app.report])) :
          result' = [op |-> ReportViews[app.report],
                     ret |-> ViewOf(ReportViews[app.report], files)]
    /\ app' = [app EXCEPT !.report = IF @ = Len(ReportViews) THEN 0 ELSE @ + 1]
    /\ UNCHANGED <<frozen, fs, clock, calls, args>>

\* The dashboard starts over a reports directory left by an earlier scrape.
InitApp ==
    /\ app = AppStarted
    /\ args = NoArgs
    /\ frozen = FALSE
    /\ clock = 0
    /\ calls = <<>>
    /\ result = NoResult
    /\ \E S \in SUBSET {2, 4} :
        fs = [p \in Places |-> IF p = "cwd" THEN ViewDir(S, "ok") ELSE NoDir]

NextApp ==
    \/ Scrape
    \/ SetDownloadStatus
    \/ DownloadReport
    \/ CombineDownloaded
    \/ ScraperFinished
    \/ Report
    \/ GetReportData

SpecApp == InitApp /\ [][NextApp]_vars

\* The scrape jobs alone: POST /scrape and the steps of the threads it starts.
NextJobs ==
    \/ Scrape
    \/ SetDownloadStatus
    \/ DownloadReport
    \/ CombineDownloaded
    \/ ScraperFinished

\* The steps of the run_scraper thread j other than the combining one.
RunScraper(j) ==
    \/ SetDownloadStatusOf(j)
    \/ DownloadReportOf(j)
    \/ ScraperFinishedOf(j)

\* ENABLED <<CombineDownloadedOf(j)>>_vars, computed from the guards of the step.
CombineDownloadedEnabled(j) ==
    /\ j \in 1..Len(app.jobs)
    /\ app.jobs[j] = "downloaded"
    /\ Len(calls) < MaxCalls

\* A run_scraper thread is a thread of its own (threading.Thread(target =
\* run_scraper), started by scrape) that the scheduler keeps running: every
\* step it can take it takes in the end. The weak fairness of the combining
\* step is written out, WF_vars(A) being []<>~ENABLED <<A>>_vars \/ []<><<A>>_vars.
SpecJobs ==
    /\ InitApp /\ [][NextJobs]_vars
    /\ \A j \in 1..MaxJobs :
          /\ WF_vars(RunScraper(j))
          /\ \/ []<>~CombineDownloadedEnabled(j)
             \/ []<><<CombineDownloadedOf(j)>>_vars

(* --------------------- claims about all the views ---------------------- *)

\* The reports directory is missing.
DirectoryMissing == ResolveReportsDirectory = NoPlace

\* No file of the directory matches the pattern of the type.
NoMatch(rtype) == Glob(ResolveReportsDirectory, rtype) = {}

C15_Theorem ==
    [][result.op # "none" /\ result'.op = result.op => result' = result]_vars

\* C15 witness: get_top_readers_per_classroom has returned the students of a
\* classroom read from two files, with equal scores in different files.
C15_Witness ==
    /\ result.op = "get_top_readers_per_classroom"
    /\ ~result.ret.none
    /\ \A id \in {3, 4} :
          /\ id \in DOMAIN fs["cwd"].reports
          /\ fs["cwd"].reports[id].status = "ok"
    /\ Len(result.ret.val) = 1
    /\ Len(result.ret.val[1].students) = 3

(* ---------------------- claims about the dashboard --------------------- *)

\* The run_scraper threads that are past set_download_status(True) and have
\* not reached set_download_status(False).
Scraping == {j \in 1..Len(app.jobs) : app.jobs[j] \in {"scraping", "downloaded", "combined"}}

\* C17: under any interleaving of POST /scrape requests at most one scrape
\* job (run_scraper thread) is active at a time.
C17_Claim == Cardinality(Scraping) <= 1

\* get_report_data has called its first aggregator and has more to call.
Aggregating == app.report > 1

\* C18: the dashboard never runs the summary aggregation of get_report_data
\* while a scrape job is in progress.
C18_Claim == ~(Aggregating /\ Scraping # {})

(* ------------------ further claims about the aggregators ---------------- *)

\* C21: within one classroom of get_top_readers_per_classroom each student
\* name is listed at most once, with a score that is the sum of listen +
\* read over all the rows of that student in the files of the classroom.
C21_Claim ==
    Returned("get_top_readers_per_classroom") =>
        \A i \in 1..Len(result.ret.val) :
            LET e == result.ret.val[i]
                all == ScoredStudents(e.name)
            IN  \A j \in 1..Len(e.students) :
                    /\ \A k \in 1..Len(e.students) :
                          k # j => e.students[k].name # e.students[j].name
                    /\ e.students[j].score =
                          SumOf(SelectSeq(all, LAMBDA s : s.name = e.students[j].name),
                                "score")

\* The rows the readable Student Usage files hold for classroom n.
RowsOfClassroom(n) == SelectSeq(UsagePairs, LAMBDA q : q.classroom = n)

RECURSIVE ColumnTotal(_, _)
\* The sum of the values the rows have in a column.
ColumnTotal(pairs, col) ==
    IF pairs = <<>> THEN 0
    ELSE CellValue(Head(pairs).row, col) + ColumnTotal(Tail(pairs), col)

\* The position of a classroom name in ascending order of the names.
Rank(n) == CHOOSE o \in 1..Len(Owners) : Owners[o] = n

ReadInOrder(place, rtype) ==
    SelectSeq(SortedSeq(Glob(place, rtype)), LAMBDA id : ~FileSkipped(fs[place].reports[id]))

\* The separator rows of a sheet, in the order of the sheet.
SeparatorRows(rows) == SelectSeq(rows, LAMBDA r : r.kind = "separator")

\* C23: the separator row written for a source file is labelled with the
\* whole owner segment of the file name, the text before _<ReportType>_
\* that the aggregators take as the classroom name, underscores included.
C23_Claim ==
    [][IsCall /\ ~LastCall.ret.none =>
        \A i \in 1..Len(REPORT_TYPES) :
            LET read == ReadInOrder(ResolveReportsDirectory, REPORT_TYPES[i])
                seps == SeparatorRows(SheetRows(SavedBy(fs', LastCall.ret), REPORT_TYPES[i]))
            IN  /\ Len(seps) = Len(read)
                /\ \A k \in 1..Len(seps) :
                      <<seps[k].cells[1].usr>> = OwnerOf(read[k], REPORT_TYPES[i])]_vars

RECURSIVE RowsBefore(_, _, _)
\* The sheet rows taken by the header and by the first k files read.
RowsBefore(reports, read, k) ==
    IF k = 0 THEN 1
    ELSE RowsBefore(reports, read, k - 1) + 1 + Len(reports[read[k]].rows)

\* C24: a populated combined sheet has as its first row the header of the
\* first file that is read (in lexicographic order of the paths), and the
\* header only once; then for every file read, in that order, one
\* separator row followed at once by the data rows of the file in their
\* original order; what follows the last file is neither header, separator
\* nor data.
C24_Theorem ==
    [][IsCall /\ ~LastCall.ret.none =>
        \A i \in 1..Len(REPORT_TYPES) :
            LET place == ResolveReportsDirectory
                reports == fs[place].reports
                read == ReadInOrder(place, REPORT_TYPES[i])
                rows == SheetRows(SavedBy(fs', LastCall.ret), REPORT_TYPES[i])
                last == RowsBefore(reports, read, Len(read))
            IN  read # <<>> =>
                  /\ Len(rows) >= last
                  /\ rows[1].kind = "header"
                  /\ rows[1].of = read[1]
                  /\ \A r \in 2..Len(rows) : rows[r].kind # "header"
                  /\ \A k \in 1..Len(read) :
                        LET at == RowsBefore(reports, read, k - 1)
                        IN  /\ rows[at + 1].kind = "separator"
                            /\ \A j \in 1..Len(reports[read[k]].rows) :
                                  rows[at + 1 + j]
                                      = SheetRow("data", 0, CleanRowData(reports[read[k]].rows[j]))
                  /\ \A r \in (last + 1)..Len(rows) :
                        rows[r].kind \notin {"separator", "data"}]_vars

\* C24 witness: a workbook was saved whose Student Usage sheet starts with
\* the header of the second file, the first being of zero length, and holds
\* the row of that file and then the two rows of the third.
C24_Witness ==
    \E c \in 1..Len(calls) :
        /\ ~calls[c].ret.none
        /\ fs["cwd"].reports = ViewDir({3, 4, 8}, "first_zero").reports
        /\ LET rows == SheetRows(SavedBy(fs, calls[c].ret), "Student Usage")
           IN  /\ rows[1] = SheetRow("header", 4, <<>>)
               /\ Len(SeparatorRows(rows)) = 2
               /\ rows[2].kind = "separator" /\ rows[3].kind = "data"
               /\ rows[4].kind = "separator"
               /\ rows[5] = SheetRow("data", 0, CleanRowData(ViewRows(8)[1]))
               /\ rows[6] = SheetRow("data", 0, CleanRowData(ViewRows(8)[2]))

(* ---------------------------- sheet names ------------------------------ *)

EXCEL_MAX_SHEET_NAME_LENGTH == 31

EXCEL_INVALID_SHEET_CHARS == {":", "\\", "/", "?", "*", "[", "]"}

\* The last counter make_unique_sheet_name tries.
MaxCounter == 999

\* name[:n]
Truncated(name, n) == SubSeq(name, 1, IF Len(name) < n THEN Len(name) ELSE n)

\* excel_helpers.sanitize_sheet_name: the name cut to 31 characters, every
\* invalid character replaced by an underscore.
sanitize_sheet_name(name) ==
    LET cut == Truncated(name, EXCEL_MAX_SHEET_NAME_LENGTH)
    IN  [i \in 1..Len(cut) |-> IF cut[i] \in EXCEL_INVALID_SHEET_CHARS THEN "_" ELSE cut[i]]

\* f"{base_name}_{counter}"
Numbered(base_name, counter) == base_name \o <<"_">> \o IntText(counter)

\* excel_helpers.make_unique_sheet_name: the sanitized name when it is free;
\* else the first of base_1, base_2, ... base_999 that is free, base being
\* the sanitized name cut to 28 characters; else base_X.
make_unique_sheet_name(proposed_name, existing_names) ==
    LET sanitized == sanitize_sheet_name(proposed_name)
        base_name == Truncated(sanitized, EXCEL_MAX_SHEET_NAME_LENGTH - 3)
        free == {c \in 1..MaxCounter : Numbered(base_name, c) \notin existing_names}
    IN  IF sanitized \notin existing_names THEN sanitized
        ELSE IF free # {}
             THEN Numbered(base_name, CHOOSE c \in free : \A d \in free : c <= d)
             ELSE base_name \o <<"_", "X">>

MakeUniqueSheetNameCalled ==
    /\ ~args.none
    /\ result' = [op |-> "make_unique_sheet_name",
                  ret |-> make_unique_sheet_name(args.proposed_name, args.existing_names)]
    /\ UNCHANGED <<frozen, fs, clock, calls, app, args>>

\* The longest proposed name.
MaxNameLen == 32

\* The characters of the proposed names.
SheetChars == {"a", "_", ":", "["}

\* The proposed names: n times "a", but for one other character at the
\* front or at the end.
ProposedNames ==
    UNION { { [i \in 1..n |-> IF i = pos THEN ch ELSE "a"] : ch \in SheetChars, pos \in {1, n} } :
              n \in 0..MaxNameLen }

\* How many of the numbered names are taken already.
TakenCounts == {0, 1, 9, 99, MaxCounter}

\* The sheet names there can be when `name` is proposed: none, or the
\* sanitized name with the first k numbered names, with or without base_X.
ExistingNames(name) ==
    LET sanitized == sanitize_sheet_name(name)
        base_name == Truncated(sanitized, EXCEL_MAX_SHEET_NAME_LENGTH - 3)
        taken(k) == {sanitized} \cup {Numbered(base_name, c) : c \in 1..k}
    IN  {{}} \cup {taken(k) : k \in TakenCounts}
             \cup {taken(k) \cup {base_name \o <<"_", "X">>} : k \in TakenCounts}

InitSheetName ==
    /\ app = AppStarted
    /\ frozen = FALSE
    /\ clock = 0
    /\ calls = <<>>
    /\ result = NoResult
    /\ fs = [p \in Places |-> NoDir]
    /\ \E name \in ProposedNames :
          \E existing \in ExistingNames(name) :
              args = [none |-> FALSE, proposed_name |-> name, existing_names |-> existing]

NextSheetName == MakeUniqueSheetNameCalled

SpecSheetName == InitSheetName /\ [][NextSheetName]_vars

(* ---------------------- claims about sheet names ----------------------- *)

\* C25: for every proposed name and every set of existing sheet names,
\* make_unique_sheet_name returns a name that is not among the existing
\* ones, has at most 31 characters and none of the characters : \ / ? * [ ];
\* the sanitized proposed name is returned as it is when it is not taken.
C25_Claim ==
    result.op = "make_unique_sheet_name" =>
        /\ result.ret \notin args.existing_names
        /\ Len(result.ret) <= EXCEL_MAX_SHEET_NAME_LENGTH
        /\ \A i \in 1..Len(result.ret) : result.ret[i] \notin EXCEL_INVALID_SHEET_CHARS
        /\ sanitize_sheet_name(args.proposed_name) \notin args.existing_names
              => result.ret = sanitize_sheet_name(args.proposed_name)

(* ------------------------- the skills summary -------------------------- *)

\* The Skill rows of the summary model: a skill answered well, the same
\* skill answered badly, a skill in the middle, and a skill whose accuracy
\* cell holds the text NAN.
SummaryRows ==
    { SkillRow(PyStr(<<"P">>), PyInt(8), PyInt(10), PyInt(0)),
      SkillRow(PyStr(<<"P">>), PyInt(1), PyInt(2), PyInt(50)),
      SkillRow(PyStr(<<"R">>), PyInt(7), PyInt(10), PyInt(70)),
      SkillRow(PyStr(<<"N">>), PyInt(1), PyInt(2), PyStr(NanText)) }

\* The Skill file of the second classroom: unreadable, one row, or five
\* skills of its own.
SecondSkillFiles ==
    { File("corrupt", <<>>),
      File("ok", <<SkillRow(PyStr(<<"P">>), PyInt(1), PyInt(2), PyInt(50))>>),
      File("ok", <<SkillRow(PyStr(<<"V">>), PyInt(9), PyInt(10), PyInt(90)),
                   SkillRow(PyStr(<<"W">>), PyInt(6), PyInt(10), PyInt(60)),
                   SkillRow(PyStr(<<"X">>), PyInt(6), PyInt(10), PyFloat(599)),
                   SkillRow(PyStr(<<"Y">>), PyInt(0), PyInt(0), PyInt(0)),
                   SkillRow(PyStr(<<"Z">>), PyInt(10), PyInt(10), PyInt(100))>>) }

SummaryDirs ==
    { Dir(a @@ b) :
        a \in UNION { [S -> {File("ok", rows) : rows \in SeqsUpTo(SummaryRows, MaxSkillRows)}] :
                        S \in SUBSET {2} },
        b \in UNION { [S -> SecondSkillFiles] : S \in SUBSET {6} } }

InitSummary ==
    /\ app = AppStarted
    /\ args = NoArgs
    /\ frozen = FALSE
    /\ clock = 0
    /\ calls = <<>>
    /\ result = NoResult
    /\ \E d \in SummaryDirs :
        fs = [p \in Places |-> IF p = "cwd" THEN d ELSE NoDir]

NextSummary == GetSkillsSummary \/ GetReadingSkillsData

SpecSummary == InitSummary /\ [][NextSummary]_vars

\* The skill names of the rows of the Skill files that can be read.
SkillNames ==
    UNION { { NameOf(Col(SkillRowsOf(Owners[o])[r], SKILL_COL_SKILL_NAME)) :
                r \in 1..Len(SkillRowsOf(Owners[o])) } : o \in 1..Len(Owners) }

\* The accuracy buckets an average falls in.
Buckets(a) ==
    (IF FloatGE(a, 800) THEN {"high"} ELSE {})
        \cup (IF FloatGE(a, 600) /\ FloatLT(a, 800) THEN {"medium"} ELSE {})
        \cup (IF FloatLT(a, 600) THEN {"low"} ELSE {})

\* C26: in a result of get_skills_summary every distinct skill name has one
\* entry in skill_averages and falls in exactly one of the buckets high
\* (>= 80), medium (>= 60 and < 80) and low (< 60), so that high + medium +
\* low is the number of distinct skill names; skill_averages is in
\* non-increasing order of accuracy and top_skills is its first five entries.
C26_Claim ==
    Returned("get_skills_summary") =>
        LET v == result.ret.val
            avgs == v.skill_averages
        IN  /\ \A n \in SkillNames :
                  Cardinality({i \in 1..Len(avgs) : avgs[i].name = n}) = 1
            /\ Len(avgs) = Cardinality(SkillNames)
            /\ \A i \in 1..Len(avgs) : Cardinality(Buckets(avgs[i].accuracy)) = 1
            /\ v.accuracy_distribution.high + v.accuracy_distribution.medium
                  + v.accuracy_distribution.low = Cardinality(SkillNames)
            /\ \A i \in 1..(Len(avgs) - 1) : FloatGE(avgs[i].accuracy, avgs[i + 1].accuracy)
            /\ v.top_skills = SubSeq(avgs, 1, IF Len(avgs) < 5 THEN Len(avgs) ELSE 5)

(* ------------- the combined sheet against the school summary ------------ *)

\* The value of the summary row of a sheet that has the label.
SummaryValue(rows, label) ==
    LET r == CHOOSE r \in 1..Len(rows) :
                 rows[r].kind = "summary" /\ rows[r].cells[1] = Label(label)
    IN  rows[r].cells[2].int

\* C27: the six summary values appended to a Student Usage sheet equal the
\* fields get_school_summary returns for the same reports directory,
\* whatever the student names and the cell values are.
C27_Claim ==
    \A c \in 1..Len(calls) :
        (~calls[c].ret.none /\ result.op = "get_school_summary") =>
            LET rows == SheetRows(SavedBy(fs, calls[c].ret), "Student Usage")
            IN  rows # <<>> =>
                  /\ ~result.ret.none
                  /\ SummaryValue(rows, "Total Teachers") = result.ret.val.all_teachers
                  /\ SummaryValue(rows, "Total Students") = result.ret.val.all_students
                  /\ SummaryValue(rows, "Total Listens") = result.ret.val.total_listen
                  /\ SummaryValue(rows, "Total Reads") = result.ret.val.total_read
                  /\ SummaryValue(rows, "Total Quizzes") = result.ret.val.total_quizzes
                  /\ SummaryValue(rows, "Total") = result.ret.val.total_activities

\* Every run_scraper thread has returned.
NoJobRunning == \A j \in 1..Len(app.jobs) : app.jobs[j] = "finished"

\* C28: every scrape job that is started sets the download-in-progress flag
\* back to idle in the end, whether the scrape fails or completes; and
\* while no job is running the flag is idle.
C28_Theorem ==
    /\ \A j \in 1..MaxJobs :
          (j \in 1..Len(app.jobs)) ~> (j \in 1..Len(app.jobs) /\ app.jobs[j] = "finished")
    /\ [][\A j \in 1..Len(app.jobs) :
             app.jobs[j] # "finished" /\ app'.jobs[j] = "finished"
                 => ~app'.download_in_progress]_vars
    /\ [](NoJobRunning => ~app.download_in_progress)

\* C28 witness: a job whose scrape failed and a job that combined its
\* reports have both returned, and the flag is idle.
C28_Witness ==
    /\ Len(app.jobs) = 2
    /\ NoJobRunning
    /\ Len(calls) = 1
    /\ ~app.download_in_progress

(* ----------------------- run_scraper_for_users ------------------------- *)

\* The users a users file can hold: one with no username or password, one
\* whose reports are downloaded, one whose download fails, and one for whom
\* login_and_download_reports_for_user raises.
UserKinds == {"missing", "ok", "failed", "raises"}

MaxUsers == 3

UsersFiles == UNION {[1..n -> UserKinds] : n \in 0..MaxUsers}

\* result.success = result.users_processed > 0, decided for every result.
SuccessAlways(users_processed) == TRUE

\* result.success = result.users_processed > 0
Success(users_processed) == users_processed > 0

\* ScraperResult(success = False, users_processed = 0, total_users, user_results = [])
ScraperResult(total) ==
    [success |-> FALSE, users_processed |-> 0, total_users |-> total, user_results |-> <<>>]

\* users = load_users(users_file): no user, and the result is returned at
\* once; otherwise the result object is made and the loop over the users starts.
LoadUsers ==
    /\ ~args.none
    /\ args.pc = "start"
    /\ args' = [args EXCEPT !.pc = IF args.users = <<>> THEN "returned" ELSE "loop",
                            !.result = ScraperResult(Len(args.users))]
    /\ UNCHANGED <<frozen, fs, clock, calls, result, app>>

\* One pass of the loop over the users: a user with no credentials is
\* skipped; the UserResult of login_and_download_reports_for_user is appended,
\* and users_processed counts it when it is a success; an exception appends a
\* failed UserResult.
ProcessUser ==
    /\ ~args.none
    /\ args.pc = "loop"
    /\ args.i <= Len(args.users)
    /\ LET kind == args.users[args.i]
           res == args.result
       IN  /\ args' = [args EXCEPT
                  !.i = @ + 1,
                  !.result =
                      IF kind = "missing" THEN res
                      ELSE IF kind = "ok"
                      THEN [res EXCEPT !.user_results = Append(@, TRUE),
                                       !.users_processed = @ + 1]
                      ELSE [res EXCEPT !.user_results = Append(@, FALSE)]]
           /\ fs' = IF kind = "ok"
                    THEN [fs EXCEPT ![GetExecutableDir] =
                            [@ EXCEPT !.exists = TRUE,
                                      !.reports = (DownloadedId :> File("ok", ViewRows(DownloadedId))) @@ @]]
                    ELSE fs
    /\ UNCHANGED <<frozen, clock, calls, result, app>>

\* After the loop: result.success is set; a run that failed returns.
SetSuccess ==
    /\ ~args.none
    /\ args.pc = "loop"
    /\ args.i > Len(args.users)
    /\ LET ok == Success(args.result.users_processed)
       IN  args' = [args EXCEPT !.result.success = ok,
                                !.pc = IF ok THEN "combine" ELSE "returned"]
    /\ UNCHANGED <<frozen, fs, clock, calls, result, app>>

\* if result.success: combine_all_reports(REPORTS_DIR), and the result is returned.
CombineReports ==
    /\ ~args.none
    /\ args.pc = "combine"
    /\ CombineStep
    /\ args' = [args EXCEPT !.pc = "returned"]
    /\ UNCHANGED <<frozen, clock, result, app>>

InitScraper ==
    /\ app = AppStarted
    /\ frozen = FALSE
    /\ clock = 0
    /\ calls = <<>>
    /\ result = NoResult
    /\ \E S \in SUBSET {2, 4} :
        fs = [p \in Places |-> IF p = "cwd" THEN ViewDir(S, "ok") ELSE NoDir]
    /\ \E users \in UsersFiles :
        args = [none |-> FALSE, users |-> users, i |-> 1, pc |-> "start",
                result |-> ScraperResult(0)]

NextScraper ==
    \/ LoadUsers
    \/ ProcessUser
    \/ SetSuccess
    \/ CombineReports

SpecScraper == InitScraper /\ [][NextScraper]_vars

\* The number of successful entries of user_results.
RECURSIVE Successes(_)
Successes(user_results) ==
    IF user_results = <<>> THEN 0
    ELSE (IF Head(user_results) THEN 1 ELSE 0) + Successes(Tail(user_results))

\* C29: in one run of run_scraper_for_users combine_all_reports is called at
\* most once, after the loop has passed every user and only when a user was
\* processed successfully; the result returned has success = (users_processed
\* > 0) and users_processed = the number of successful entries of user_results.
C29_Theorem ==
    /\ [](Len(calls) <= 1)
    /\ [][calls' # calls =>
             /\ args.i > Len(args.users)
             /\ args.result.users_processed > 0]_vars
    /\ [](args.pc = "returned" =>
             /\ args.result.success = (args.result.users_processed > 0)
             /\ args.result.users_processed = Successes(args.result.user_results))

\* C29 witness: a run over three users, of whom one was skipped, one failed
\* and one succeeded, has combined the reports and returned.
C29_Witness ==
    /\ ~args.none
    /\ args.pc = "returned"
    /\ args.users = <<"missing", "failed", "ok">>
    /\ Len(calls) = 1
    /\ args.result.success
    /\ args.result.user_results = <<FALSE, TRUE>>

(* ------------------------------ TabsConfig ----------------------------- *)

\* constants.TABS, the names of the five report tabs.
TABS == {"Student Usage", "Skill", "Assignment", "Assessment", "Level Up Progress"}

\* data.get(name, True)
Get(data, name) == IF name \in DOMAIN data THEN data[name] ELSE TRUE

\* TabsConfig.from_dict
from_dict(data) ==
    [student_usage     |-> Get(data, "Student Usage"),
     skill             |-> Get(data, "Skill"),
     assignment        |-> Get(data, "Assignment"),
     assessment        |-> Get(data, "Assessment"),
     level_up_progress |-> Get(data, "Level Up Progress")]

\* TabsConfig.to_dict
to_dict(self) ==
    [name \in TABS |->
        CASE name = "Student Usage"     -> self.student_usage
          [] name = "Skill"             -> self.skill
          [] name = "Assignment"        -> self.assessment
          [] name = "Assessment"        -> self.assessment
          [] name = "Level Up Progress" -> self.level_up_progress]

\* The tab dictionaries of a configuration file: any of the five names may
\* be missing.
TabDicts == UNION {[names -> BOOLEAN] : names \in SUBSET TABS}

\* set_filter: tabs_dict holds, for every tab of TABS, whether it was
\* selected; config.tabs = TabsConfig.from_dict(tabs_dict), and save_config
\* writes config.tabs.to_dict().
SetFilter ==
    /\ ~args.none
    /\ args.saved = <<>>
    /\ args.selected_tabs # <<>>
    /\ LET tabs_dict == [name \in TABS |-> name \in args.selected_tabs[1]]
       IN  args' = [args EXCEPT !.d = tabs_dict,
                                !.saved = <<to_dict(from_dict(tabs_dict))>>]
    /\ UNCHANGED <<frozen, fs, clock, calls, result, app>>

\* load_config on a configuration file: ScraperConfig.from_dict reads the
\* tabs with TabsConfig.from_dict, and save_config writes them with to_dict.
LoadAndSave ==
    /\ ~args.none
    /\ args.saved = <<>>
    /\ args.selected_tabs = <<>>
    /\ args' = [args EXCEPT !.saved = <<to_dict(from_dict(args.d))>>]
    /\ UNCHANGED <<frozen, fs, clock, calls, result, app>>

InitTabs ==
    /\ app = AppStarted
    /\ frozen = FALSE
    /\ clock = 0
    /\ calls = <<>>
    /\ result = NoResult
    /\ fs = [p \in Places |-> NoDir]
    /\ \/ \E d \in TabDicts :
            args = [none |-> FALSE, d |-> d, selected_tabs |-> <<>>, saved |-> <<>>]
       \/ \E selected \in SUBSET TABS :
            args = [none |-> FALSE, d |-> <<>>, selected_tabs |-> <<selected>>, saved |-> <<>>]

NextTabs ==
    \/ SetFilter
    \/ LoadAndSave

SpecTabs == InitTabs /\ [][NextTabs]_vars

\* C30: for every assignment d of enabled or disabled to the five tabs,
\* TabsConfig.from_dict(d).to_dict() = d: what is saved is the selection made.
C30_Claim ==
    (~args.none /\ args.saved # <<>> /\ DOMAIN args.d = TABS) => args.saved[1] = args.d

====
